---- MODULE Spec2Model ----
(***************************************************************************)
(* Request-admission and usage-accounting pipeline of the PerceptEye       *)
(* Gemini proxy: the Express middleware chains of routes/gemini.js, the    *)
(* transparent proxy route, the gRPC ProxyRequest entry point, and the     *)
(* Supabase / Gemini service calls they make.                              *)
(*                                                                         *)
(* Every request is an independent task that is suspended exactly at its   *)
(* network calls (identity provider, store, upstream provider).  One       *)
(* action of the model is the code that runs between two suspensions.      *)
(* The external collaborators answer nondeterministically.  Request        *)
(* parameters (model id, body, gRPC path) are fixed when the request       *)
(* arrives; the model draws each of them when the code first reads it.     *)
(***************************************************************************)
EXTENDS Integers, Sequences, FiniteSets, TLC

(***************************************************************************)
(* Bounds of the model                                                     *)
(***************************************************************************)
\* Date.now() is drawn from 0..MaxTime (milliseconds)
MaxTime == 1
\* the counters of a QuotaSnapshot are drawn from 0..MaxCount
MaxCount == 1
\* largest token count handed to the cost calculator
MaxTokens == 3
\* longest text of a part, in characters
MaxText == 5
\* most contents of a payload and most parts of a content
MaxContents == 2
MaxParts == 2

\* the requests of the model (all of the same principal)
Reqs == {1, 2}
\* the request that goes through the whole pipeline in Spec
Solo == {1}

(***************************************************************************)
(* Program constants                                                       *)
(***************************************************************************)
\* config.rateLimit.windowMs
windowMs == 60 * 60 * 1000
\* 24 * 60 * 60 * 1000 in checkUserLimits
dayMs == 24 * 60 * 60 * 1000
\* grpc.status.INTERNAL
GRPC_INTERNAL == 13
\* grpc status OK
GRPC_OK == 0

(***************************************************************************)
(* Strings the code inspects are sequences of characters (or of words),    *)
(* so that startsWith / substring / includes are computed, not assumed.    *)
(***************************************************************************)
\* String.prototype.startsWith
StartsWith(s, p) ==
  /\ Len(s) >= Len(p)
  /\ SubSeq(s, 1, Len(p)) = p

\* String.prototype.substring(n): the characters from index n (0-based) on
Substring(s, n) == SubSeq(s, n + 1, Len(s))

\* String.prototype.includes
Includes(s, p) ==
  \E i \in 0..(Len(s) - Len(p)) : SubSeq(s, i + 1, i + Len(p)) = p

\* the literal 'Bearer '
BearerPrefix == <<"B", "e", "a", "r", "e", "r", " ">>

\* Authorization header values of the model; <<>> is an absent header
NoHeader == <<>>
LowerHeader == <<"b", "e", "a", "r", "e", "r", " ", "t">>
NoSpaceHeader == <<"B", "e", "a", "r", "e", "r", "t">>
BasicHeader == <<"B", "a", "s", "i", "c", " ", "t">>
GoodHeader == <<"B", "e", "a", "r", "e", "r", " ", "t">>
Headers == {NoHeader, LowerHeader, NoSpaceHeader, BasicHeader, GoodHeader}

\* entry points
ModelRoutes == {"generateContent", "streamGenerateContent", "countTokens", "embeddings"}
\* the transparent proxy route exists twice: "transparent" calls the global
\* fetch, "transparentNodeFetch" requires node-fetch and logs every step
TransparentRoutes == {"transparent", "transparentNodeFetch"}
Entries == ModelRoutes \cup TransparentRoutes \cup {"models", "usage", "grpc", "health"}

\* a registration that estimates before it checks the limits
Chain_EstimateFirst(e) ==
  CASE e \in {"generateContent", "streamGenerateContent"} ->
         <<"authenticateUser", "validateModel", "validateRequest",
           "estimateTokenUsage", "checkUserLimits", "handler">>
    [] e = "countTokens" ->
         <<"authenticateUser", "validateModel", "validateRequest", "handler">>
    [] e = "embeddings" -> <<"authenticateUser", "validateModel", "handler">>
    [] e = "models" -> <<"authenticateUser", "handler">>
    [] e = "usage" -> <<"authenticateUser", "handler">>
    [] e \in TransparentRoutes -> <<"authenticateUser", "globalRateLimit", "handler">>
    [] e = "health" -> <<"handler">>
    [] e = "grpc" -> <<"proxyToGoogle">>

\* the middleware chain registered for each route
Chain(e) ==
  CASE e = "generateContent" ->
         <<"authenticateUser", "validateModel", "validateRequest",
           "checkUserLimits", "estimateTokenUsage", "handler">>
    [] e = "streamGenerateContent" ->
         <<"authenticateUser", "validateModel", "validateRequest",
           "checkUserLimits", "estimateTokenUsage", "handler">>
    [] e = "countTokens" ->
         <<"authenticateUser", "validateModel", "validateRequest", "handler">>
    [] e = "embeddings" -> <<"authenticateUser", "validateModel", "handler">>
    [] e = "models" -> <<"authenticateUser", "handler">>
    [] e = "usage" -> <<"authenticateUser", "handler">>
    [] e \in TransparentRoutes -> <<"authenticateUser", "globalRateLimit", "handler">>
    [] e = "health" -> <<"handler">>
    [] e = "grpc" -> <<"proxyToGoogle">>


\* the entry points whose chain starts with authenticateUser
Guarded == {e \in Entries : Chain(e)[1] = "authenticateUser"}

(***************************************************************************)
(* State                                                                   *)
(***************************************************************************)
VARIABLES
  pc,               \* position of each request's task
  stage,            \* index of the running middleware in the route's chain
  entry,            \* entry point the request came in through
  hdr,              \* its Authorization header / metadata value
  model,            \* req.params.model (request.model for gRPC), "?" until read
  body,             \* req.body, NoBody until read
  path,             \* call.getPath() of a gRPC call, <<>> until read
  user,             \* req.user is attached
  verified,         \* verifyToken returned a user for the request's token
  resp,             \* the response sent to the client, NoResp before
  calls,            \* calls made on behalf of the request, per collaborator
  trace,            \* start / end events of the pipeline stages of the request
  write,            \* state of the request's usage-store write
  upstream,         \* what the provider answered, NoAnswer before
  limits,           \* outcome of the limits-store query made for the request
  checkedAt,        \* the Date.now() read when a ceiling was found violated
  estimatedTokens,  \* req.estimatedTokens
  record,           \* the UsageRecord handed to the store
  profiles,         \* user_profiles rows of the principal: is_active of each
  quota,            \* the principal's ceilings as the limits store holds them
  fn,               \* a function applied on its own: its name, argument, result
  faults,           \* the transient failures a collaborator answered the request with
  relay,            \* the relay of a streamed answer: client side, upstream side
  logs,             \* the log records written about the request's upstream call
  resHeaders,       \* the headers set on the response object of the request
  rpc,              \* the answer of the limits store on its way to the request
  audit,            \* which requests were where when the usage reached the ceiling
  proc              \* the process: its HTTP server, its gRPC server, whether it exited

vars == <<pc, stage, entry, hdr, model, body, path, user, verified, resp, calls, trace,
          write, upstream, limits, checkedAt, estimatedTokens, fn, record, profiles, quota,
          faults, relay, logs, resHeaders, rpc, audit, proc>>

Times == 0..MaxTime
Counts == 0..MaxCount

NoDetails == [counter |-> "none", value |-> 0, reset_time |-> 0]
NoCost == [kind |-> "none", v |-> 0]
NoAnswer == [kind |-> "none", status |-> 0, meta |-> FALSE, code |-> "none",
             prompt |-> 0, cand |-> 0, total |-> 0, textLen |-> 0]
NoData == [kind |-> "none", cost |-> NoCost, tokens |-> 0, model |-> "?",
           answer |-> NoAnswer]
\* the message of a response whose text the model does not follow
NoMessage == "-"

\* message is the message field of an error body; contains is the set of
\* secrets ("stack", "apiKey", "bearerToken") that occur in the body
NoResp == [status |-> -1, error |-> "none", message |-> NoMessage, contains |-> {},
           details |-> NoDetails, data |-> NoData]

\* res.status(status).json({error, message})
ErrorMessageResp(status, error, message) ==
  [status |-> status, error |-> error, message |-> message, contains |-> {},
   details |-> NoDetails, data |-> NoData]

\* res.status(status).json({error, ...})
ErrorResp(status, error) == ErrorMessageResp(status, error, NoMessage)

\* res.status(status).json(data)
DataResp(status, data) ==
  [status |-> status, error |-> "none", message |-> NoMessage, contains |-> {},
   details |-> NoDetails, data |-> data]

NoCalls == [verifyToken |-> 0, getUser |-> 0, getUserProfile |-> 0,
            checkUserLimits |-> 0, recordUsage |-> 0, upstream |-> 0]

NoBody == [hasContents |-> FALSE, contents |-> <<>>, hasModel |-> FALSE,
           prompt |-> -1, jsonLen |-> -1]
NoEstimate == [input |-> -1, total |-> -1]
NoLimits == [state |-> "none", hourly |-> TRUE, tokens |-> TRUE, cost |-> TRUE]
NoFn == [name |-> "none", done |-> FALSE]
\* no streamed answer is being relayed: client is the state of the client's
\* connection, source the state of the upstream response stream
NoRelay == [client |-> "connected", source |-> "none"]
\* no answer of the limits store is on its way
NoRpc == [o |-> "none", within_hourly_limit |-> FALSE,
          within_daily_token_limit |-> FALSE, within_daily_cost_limit |-> FALSE,
          requests_last_hour |-> 0, tokens_today |-> 0, cost_today |-> 0]
\* the recorded usage has not reached the hourly ceiling; once it has,
\* inFlight holds the requests that were admitted and not yet recorded at
\* that moment, pending the requests whose limits query was answered and
\* not yet decided at that moment, late the requests admitted since
NoAudit == [reached |-> FALSE, inFlight |-> {}, pending |-> {}, late |-> {}]
\* the process after start-up: both servers take requests
Running == [http |-> "listening", grpc |-> "serving", exited |-> FALSE]
NoRecord == [tokens |-> -1, cost |-> NoCost, model |-> "?", type |-> "none"]

\* for each ceiling, whether the principal is within it
Ceilings == [hourly : BOOLEAN, tokens : BOOLEAN, cost : BOOLEAN]

Init ==
  /\ pc = [r \in Reqs |-> "idle"]
  /\ stage = [r \in Reqs |-> 0]
  /\ entry = [r \in Reqs |-> "none"]
  /\ hdr = [r \in Reqs |-> NoHeader]
  /\ model = [r \in Reqs |-> "?"]
  /\ body = [r \in Reqs |-> NoBody]
  /\ path = [r \in Reqs |-> <<>>]
  /\ user = [r \in Reqs |-> FALSE]
  /\ verified = [r \in Reqs |-> FALSE]
  /\ resp = [r \in Reqs |-> NoResp]
  /\ calls = [r \in Reqs |-> NoCalls]
  /\ trace = [r \in Reqs |-> <<>>]
  /\ write = [r \in Reqs |-> "none"]
  /\ upstream = [r \in Reqs |-> NoAnswer]
  /\ limits = [r \in Reqs |-> NoLimits]
  /\ checkedAt = [r \in Reqs |-> -1]
  /\ estimatedTokens = [r \in Reqs |-> NoEstimate]
  /\ record = [r \in Reqs |-> NoRecord]
  /\ profiles \in {<<>>, <<TRUE>>, <<FALSE>>}
  /\ quota \in Ceilings
  /\ fn = NoFn
  /\ faults = [r \in Reqs |-> {}]
  /\ relay = [r \in Reqs |-> NoRelay]
  /\ logs = [r \in Reqs |-> {}]
  /\ rpc = [r \in Reqs |-> NoRpc]
  /\ audit = NoAudit
  /\ proc = Running
  /\ resHeaders = [r \in Reqs |-> {}]

(***************************************************************************)
(* Express plumbing                                                        *)
(***************************************************************************)
Started(t, s) == Append(t, <<"start", s>>)
Ended(t, s) == Append(t, <<"end", s>>)

\* the name of the middleware that next() hands the request to
NextName(r) == Chain(entry[r])[stage[r] + 1]

\* next(): the running middleware s ends, the following one of the chain starts
CallNext(r, s) ==
  /\ stage' = [stage EXCEPT ![r] = @ + 1]
  /\ pc' = [pc EXCEPT ![r] = NextName(r)]
  /\ trace' = [trace EXCEPT ![r] = Started(Ended(@, s), NextName(r))]
  /\ UNCHANGED resp

\* res.status(..).json(..) without the return: the response is sent and the
\* middleware goes on to next()
Reject_AndNext(r, s, response) ==
  /\ resp' = [resp EXCEPT ![r] = response]
  /\ IF stage[r] < Len(Chain(entry[r]))
       THEN /\ stage' = [stage EXCEPT ![r] = @ + 1]
            /\ pc' = [pc EXCEPT ![r] = NextName(r)]
            /\ trace' = [trace EXCEPT ![r] = Started(Ended(@, s), NextName(r))]
       ELSE /\ pc' = [pc EXCEPT ![r] = "done"]
            /\ trace' = [trace EXCEPT ![r] = Ended(@, s)]
            /\ UNCHANGED stage

\* res.status(..).json(..) and return: the middleware s ends, the chain stops
Reject(r, s, response) ==
  /\ resp' = [resp EXCEPT ![r] = response]
  /\ pc' = [pc EXCEPT ![r] = "done"]
  /\ trace' = [trace EXCEPT ![r] = Ended(@, s)]
  /\ UNCHANGED stage

\* the request id middleware of the HTTP server runs before every route:
\* req.id = uuidv4(); res.set('X-Request-ID', req.id)
AppHeaders(e) == IF e = "grpc" THEN {} ELSE {"X-Request-ID"}

\* a request arrives on one of the entry points and is dispatched to the
\* first function of its chain
Arrive(r) ==
  /\ pc[r] = "idle"
  /\ \E e \in Entries, h \in Headers :
       /\ entry' = [entry EXCEPT ![r] = e]
       /\ hdr' = [hdr EXCEPT ![r] = h]
       /\ pc' = [pc EXCEPT ![r] = Chain(e)[1]]
       /\ trace' = [trace EXCEPT ![r] = Started(@, Chain(e)[1])]
       /\ resHeaders' = [resHeaders EXCEPT ![r] = AppHeaders(e)]
  /\ stage' = [stage EXCEPT ![r] = 1]
  /\ UNCHANGED <<model, body, path, user, verified, resp, calls, write, upstream,
                 limits, checkedAt, estimatedTokens, fn, faults, relay, record, profiles, quota,
                 logs, rpc, audit, proc>>

(***************************************************************************)
(* Auth Gate: authenticateUser (HTTP), authenticateCall (gRPC),            *)
(* SupabaseService.verifyToken and getUserProfile                          *)
(***************************************************************************)
\* a header check that looks at the presence of the header only
HeaderAccepted_PresenceOnly(h) == h # NoHeader

\* !authHeader || !authHeader.startsWith('Bearer ') is false
HeaderAccepted(h) == h # NoHeader /\ StartsWith(h, BearerPrefix)

\* what the identity provider's auth.getUser(token) can do: return a user,
\* return an error, return neither, or raise
IdpOutcomes == {"user", "error", "nouser", "throw"}

\* paths a caller of proxyToGoogle can present (words of the method name);
\* the server registers only ProxyRequestPath
ProxyRequestPath == <<"/proxy.GenerativeService/", "Proxy", "Request">>
GrpcPaths == {ProxyRequestPath,
              <<"/svc/", "Generate", "Content">>,
              <<"/svc/", "Stream", "Generate", "Content">>,
              <<"/svc/", "Count", "Tokens">>,
              <<"/svc/", "Embed", "Content">>}

\* the provider operation proxyToGoogle selects for a gRPC path
GoogleEndpoint(p) ==
  IF Includes(p, <<"Generate", "Content">>) THEN "generateContent"
  ELSE IF Includes(p, <<"Stream", "Generate", "Content">>) THEN "streamGenerateContent"
  ELSE IF Includes(p, <<"Count", "Tokens">>) THEN "countTokens"
  ELSE "unsupported"

\* a catch that hands the caught error to the callback as it is: an Error
\* without a code, which gRPC reports as UNKNOWN (2)
GrpcError_NoCode(msg) == ErrorResp(2, msg)

\* the catch of proxyToGoogle: callback(grpcError) with code INTERNAL
GrpcError(msg) == ErrorResp(GRPC_INTERNAL, msg)

\* authenticateUser up to its first await: the header check, then verifyToken
AuthenticateUser(r) ==
  /\ pc[r] = "authenticateUser"
  /\ IF ~HeaderAccepted(hdr[r])
       THEN /\ Reject(r, "authenticateUser", ErrorResp(401, "Authentication required"))
            /\ UNCHANGED calls
       ELSE /\ pc' = [pc EXCEPT ![r] = "await_getUser"]
            /\ calls' = [calls EXCEPT ![r].verifyToken = @ + 1, ![r].getUser = @ + 1]
            /\ UNCHANGED <<resp, trace, stage>>
  /\ UNCHANGED <<entry, hdr, model, body, path, user, verified, write, upstream,
                 limits, checkedAt, estimatedTokens, fn, faults, relay, record, profiles, quota,
                 logs, resHeaders, rpc, audit, proc>>

\* proxyToGoogle / authenticateCall up to the first await
GrpcAuthenticateCall(r) ==
  /\ pc[r] = "proxyToGoogle"
  /\ IF hdr[r] = NoHeader
       THEN /\ Reject(r, "proxyToGoogle", GrpcError("No authorization header"))
            /\ UNCHANGED calls
       ELSE IF ~StartsWith(hdr[r], BearerPrefix)
       THEN /\ Reject(r, "proxyToGoogle", GrpcError("Invalid authorization header format"))
            /\ UNCHANGED calls
       ELSE /\ pc' = [pc EXCEPT ![r] = "await_getUser"]
            /\ calls' = [calls EXCEPT ![r].verifyToken = @ + 1, ![r].getUser = @ + 1]
            /\ UNCHANGED <<resp, trace, stage>>
  /\ UNCHANGED <<entry, hdr, model, body, path, user, verified, write, upstream,
                 limits, checkedAt, estimatedTokens, fn, faults, relay, record, profiles, quota,
                 logs, resHeaders, rpc, audit, proc>>

\* the code that runs once verifyToken has returned {user, error}; ok is
\* ~(error || !user); c is the request's call counters so far
AfterVerifyToken(r, ok, c) ==
  /\ verified' = [verified EXCEPT ![r] = ok]
  /\ IF entry[r] = "grpc"
       THEN IF ~ok
              THEN /\ Reject(r, "proxyToGoogle", GrpcError("Invalid or expired token"))
                   /\ calls' = [calls EXCEPT ![r] = c]
                   /\ UNCHANGED <<user, path>>
              ELSE \E p \in GrpcPaths :
                     /\ path' = [path EXCEPT ![r] = p]
                     /\ user' = [user EXCEPT ![r] = TRUE]
                     /\ IF GoogleEndpoint(p) = "unsupported"
                          THEN /\ Reject(r, "proxyToGoogle", GrpcError("Unsupported gRPC method"))
                               /\ calls' = [calls EXCEPT ![r] = c]
                          ELSE /\ pc' = [pc EXCEPT ![r] = "await_fetch"]
                               /\ calls' = [calls EXCEPT ![r] = [c EXCEPT !.upstream = @ + 1]]
                               /\ trace' = [trace EXCEPT ![r] = Started(@, "upstream")]
                               /\ UNCHANGED <<resp, stage>>
       ELSE /\ IF ~ok
                 THEN /\ Reject(r, "authenticateUser", ErrorResp(401, "Invalid or expired token"))
                      /\ calls' = [calls EXCEPT ![r] = c]
                 ELSE /\ pc' = [pc EXCEPT ![r] = "await_profile_select"]
                      /\ calls' = [calls EXCEPT ![r] = [c EXCEPT !.getUserProfile = @ + 1]]
                      /\ UNCHANGED <<resp, trace, stage>>
            /\ UNCHANGED <<user, path>>

\* verifyToken: this.client.auth.getUser(token) has answered
VerifyTokenPrimary(r) ==
  /\ pc[r] = "await_getUser"
  /\ \E o \in IdpOutcomes :
       /\ faults' = [faults EXCEPT ![r] = IF o = "throw" THEN @ \cup {"idp"} ELSE @]
       /\ CASE o = "user" -> AfterVerifyToken(r, TRUE, calls[r])
            [] o = "error" ->
                 /\ pc' = [pc EXCEPT ![r] = "await_admin_getUser"]
                 /\ calls' = [calls EXCEPT ![r].getUser = @ + 1]
                 /\ UNCHANGED <<resp, trace, stage, user, verified, path>>
            [] OTHER -> AfterVerifyToken(r, FALSE, calls[r])
  /\ UNCHANGED <<entry, hdr, model, body, write, upstream,
                 limits, checkedAt, estimatedTokens, fn, relay, record, profiles, quota,
                 logs, resHeaders, rpc, audit, proc>>

\* verifyToken: the fallback this.admin.auth.getUser(token) has answered
VerifyTokenAdmin(r) ==
  /\ pc[r] = "await_admin_getUser"
  /\ \E o \in IdpOutcomes :
       /\ faults' = [faults EXCEPT ![r] = IF o = "throw" THEN @ \cup {"idp"} ELSE @]
       /\ AfterVerifyToken(r, o = "user", calls[r])
  /\ UNCHANGED <<entry, hdr, model, body, write, upstream,
                 limits, checkedAt, estimatedTokens, fn, relay, record, profiles, quota,
                 logs, resHeaders, rpc, audit, proc>>

\* req.user = user; req.userProfile = profile; next()
AttachAndNext(r) ==
  /\ user' = [user EXCEPT ![r] = TRUE]
  /\ CallNext(r, "authenticateUser")

\* the catch of authenticateUser
AuthServiceError == ErrorResp(500, "Authentication service error")

\* getUserProfile: the select ... .single() has answered
GetUserProfileSelect(r) ==
  /\ pc[r] = "await_profile_select"
  /\ \/ /\ Len(profiles) = 1
        /\ IF profiles[1]
             THEN AttachAndNext(r)
             ELSE /\ Reject(r, "authenticateUser", ErrorResp(403, "Account inactive"))
                  /\ UNCHANGED user
        /\ UNCHANGED faults
     \/ /\ Len(profiles) # 1
        /\ pc' = [pc EXCEPT ![r] = "await_profile_insert"]
        /\ UNCHANGED <<resp, trace, stage, user>>
        /\ UNCHANGED faults
     \/ /\ Reject(r, "authenticateUser", AuthServiceError)
        /\ faults' = [faults EXCEPT ![r] = @ \cup {"store"}]
        /\ UNCHANGED user
  /\ UNCHANGED <<entry, hdr, model, body, path, verified, calls, write, upstream,
                 limits, checkedAt, estimatedTokens, fn, relay, record, profiles, quota,
                 logs, resHeaders, rpc, audit, proc>>

\* the insert of a profile can report a conflict (insertError) when the
\* principal already has a row
InsertConflicts(rows) == Len(rows) >= 1

\* getUserProfile: the insert of the default profile has answered; the store
\* creates the row, reports a conflict with a row created meanwhile, or fails
GetUserProfileInsert(r) ==
  /\ pc[r] = "await_profile_insert"
  /\ \/ /\ profiles' = Append(profiles, TRUE)
        /\ AttachAndNext(r)
        /\ UNCHANGED faults
     \/ /\ InsertConflicts(profiles)
        /\ Reject(r, "authenticateUser", AuthServiceError)
        /\ UNCHANGED <<user, profiles, faults>>
     \/ /\ Reject(r, "authenticateUser", AuthServiceError)
        /\ faults' = [faults EXCEPT ![r] = @ \cup {"store"}]
        /\ UNCHANGED <<user, profiles>>
  /\ UNCHANGED <<entry, hdr, model, body, path, verified, calls, write, upstream,
                 limits, checkedAt, estimatedTokens, fn, relay, record, quota,
                 logs, resHeaders, rpc, audit, proc>>

(***************************************************************************)
(* Validation: validateModel, validateRequest(schema)                      *)
(***************************************************************************)
\* allowedModels of validateModel
AllowedModels == {"gemini-2.5-pro", "gemini-2.5-pro-latest", "gemini-2.0-flash-exp",
                  "gemini-1.5-pro", "gemini-1.5-pro-latest", "gemini-1.5-flash",
                  "gemini-1.5-flash-latest", "gemini-1.5-flash-8b",
                  "gemini-1.5-flash-8b-latest", "gemini-embedding-001",
                  "text-embedding-004", "text-multilingual-embedding-002",
                  "gemini-pro", "gemini-pro-vision"}

\* embeddingModels of the embeddings handler
EmbeddingModels == {"gemini-embedding-001", "text-embedding-004",
                    "text-multilingual-embedding-002"}

\* model ids requests of the model carry
ModelIds == {"gemini-1.5-flash", "gemini-embedding-001", "text-embedding-004", "gpt-4"}

\* request bodies of the model.  contents is the contents array (each content
\* the sequence of its parts; a part has a text of some length, -1 when it has
\* none, and may have inlineData); hasContents tells whether the key is there;
\* hasModel whether a model key is there; prompt the length of a prompt key,
\* -1 when absent; jsonLen the length of JSON.stringify(body)
TextBody == [hasContents |-> TRUE,
             contents |-> << <<[text |-> 5, inlineData |-> FALSE]>> >>,
             hasModel |-> FALSE, prompt |-> -1, jsonLen |-> 45]
EmbedBody == [hasContents |-> FALSE, contents |-> <<>>,
              hasModel |-> TRUE, prompt |-> -1, jsonLen |-> 61]
EmptyBody == [hasContents |-> FALSE, contents |-> <<>>,
              hasModel |-> FALSE, prompt |-> -1, jsonLen |-> 2]
Bodies == {TextBody, EmbedBody, EmptyBody}

\* every part satisfies .or('text', 'inlineData')
PartsValid(b) ==
  \A i \in 1..Len(b.contents) : \A j \in 1..Len(b.contents[i]) :
    b.contents[i][j].text >= 0 \/ b.contents[i][j].inlineData

\* generateContentSchema.validate(body) reports no error: contents is
\* required and keys outside the schema are not allowed
GenerateContentSchemaOk(b) ==
  b.hasContents /\ ~b.hasModel /\ b.prompt < 0 /\ PartsValid(b)

\* countTokensSchema.validate(body) reports no error: contents is optional
CountTokensSchemaOk(b) ==
  ~b.hasModel /\ b.prompt < 0 /\ PartsValid(b)

SchemaOk(e, b) ==
  IF e = "countTokens" THEN CountTokensSchemaOk(b) ELSE GenerateContentSchemaOk(b)

validateModel(r) ==
  /\ pc[r] = "validateModel"
  /\ \E m \in ModelIds :
       /\ model' = [model EXCEPT ![r] = m]
       /\ IF m \notin AllowedModels
            THEN Reject(r, "validateModel", ErrorResp(400, "Invalid model"))
            ELSE CallNext(r, "validateModel")
  /\ UNCHANGED <<entry, hdr, body, path, user, verified, calls, write, upstream,
                 limits, checkedAt, estimatedTokens, fn, faults, relay, record, profiles, quota,
                 logs, resHeaders, rpc, audit, proc>>

validateRequest(r) ==
  /\ pc[r] = "validateRequest"
  /\ \E b \in Bodies :
       /\ body' = [body EXCEPT ![r] = b]
       /\ IF ~SchemaOk(entry[r], b)
            THEN Reject(r, "validateRequest", ErrorResp(400, "Validation error"))
            ELSE CallNext(r, "validateRequest")
  /\ UNCHANGED <<entry, hdr, model, path, user, verified, calls, write, upstream,
                 limits, checkedAt, estimatedTokens, fn, faults, relay, record, profiles, quota,
                 logs, resHeaders, rpc, audit, proc>>

\* globalRateLimit in the transparent proxy's chain (express-rate-limit):
\* the request is within the per-IP window or the handler answers 429
globalRateLimit(r) ==
  /\ pc[r] = "globalRateLimit"
  /\ \/ CallNext(r, "globalRateLimit")
     \/ Reject(r, "globalRateLimit", ErrorResp(429, "Too many requests"))
  /\ UNCHANGED <<entry, hdr, model, body, path, user, verified, calls, write, upstream,
                 limits, checkedAt, estimatedTokens, fn, faults, relay, record, profiles, quota,
                 logs, resHeaders, rpc, audit, proc>>

(***************************************************************************)
(* Quota Guard: checkUserLimits (middleware) and                           *)
(* SupabaseService.checkUserLimits                                         *)
(***************************************************************************)
\* rows the check_user_limits RPC can return
Snapshots ==
  [within_hourly_limit : BOOLEAN, within_daily_token_limit : BOOLEAN,
   within_daily_cost_limit : BOOLEAN,
   requests_last_hour : Counts, tokens_today : Counts, cost_today : Counts]

\* the rows the RPC can return while the store holds the ceilings c
RowsOf(c) ==
  {s \in Snapshots : /\ s.within_hourly_limit = c.hourly
                     /\ s.within_daily_token_limit = c.tokens
                     /\ s.within_daily_cost_limit = c.cost}

\* a literal for a missing data[0] that has every ceiling satisfied
DefaultSnapshot_AllWithin ==
  [within_hourly_limit |-> TRUE, within_daily_token_limit |-> TRUE,
   within_daily_cost_limit |-> TRUE,
   requests_last_hour |-> 0, tokens_today |-> 0, cost_today |-> 0]

\* the literal SupabaseService.checkUserLimits returns when data[0] is missing
DefaultSnapshot ==
  [within_hourly_limit |-> FALSE, within_daily_token_limit |-> FALSE,
   within_daily_cost_limit |-> FALSE,
   requests_last_hour |-> 0, tokens_today |-> 0, cost_today |-> 0]

\* what the rpc call can do: return an error, raise, return no row, return a row
RpcOutcomes == {"error", "throw", "empty", "row"}

\* SupabaseService.checkUserLimits: it throws, or returns a snapshot;
\* defaulted tells that the snapshot is the literal after data[0] ||
supabaseCheckUserLimits(o, row) ==
  IF o \in {"error", "throw"}
    THEN [threw |-> TRUE, snap |-> DefaultSnapshot, defaulted |-> FALSE]
  ELSE IF o = "empty" THEN [threw |-> FALSE, snap |-> DefaultSnapshot, defaulted |-> TRUE]
  ELSE [threw |-> FALSE, snap |-> row, defaulted |-> FALSE]

\* res.status(429).json({error, message, details: {<counter>, reset_time}})
LimitResp(error, counter, value, reset) ==
  [ErrorResp(429, error) EXCEPT
     !.details = [counter |-> counter, value |-> value, reset_time |-> reset]]

\* a checkUserLimits that answers 500 when the limits query fails
checkUserLimitsVerdict_FailClosed(q, now) ==
  IF q.threw THEN ErrorResp(500, "Rate limit check failed")
  ELSE IF ~q.snap.within_hourly_limit
    THEN LimitResp("Rate limit exceeded", "requests_last_hour",
                   q.snap.requests_last_hour, now + windowMs)
  ELSE IF ~q.snap.within_daily_token_limit
    THEN LimitResp("Token limit exceeded", "tokens_today",
                   q.snap.tokens_today, now + dayMs)
  ELSE IF ~q.snap.within_daily_cost_limit
    THEN LimitResp("Cost limit exceeded", "cost_today",
                   q.snap.cost_today, now + dayMs)
  ELSE NoResp

\* a checkUserLimits that does not look at the hourly ceiling
checkUserLimitsVerdict_NoHourly(q, now) ==
  IF q.threw THEN NoResp
  ELSE IF ~q.snap.within_daily_token_limit
    THEN LimitResp("Token limit exceeded", "tokens_today",
                   q.snap.tokens_today, now + dayMs)
  ELSE IF ~q.snap.within_daily_cost_limit
    THEN LimitResp("Cost limit exceeded", "cost_today",
                   q.snap.cost_today, now + dayMs)
  ELSE NoResp

\* a checkUserLimits that looks at the daily ceilings before the hourly one
checkUserLimitsVerdict_DailyFirst(q, now) ==
  IF q.threw THEN NoResp
  ELSE IF ~q.snap.within_daily_token_limit
    THEN LimitResp("Token limit exceeded", "tokens_today",
                   q.snap.tokens_today, now + dayMs)
  ELSE IF ~q.snap.within_daily_cost_limit
    THEN LimitResp("Cost limit exceeded", "cost_today",
                   q.snap.cost_today, now + dayMs)
  ELSE IF ~q.snap.within_hourly_limit
    THEN LimitResp("Rate limit exceeded", "requests_last_hour",
                   q.snap.requests_last_hour, now + windowMs)
  ELSE NoResp

\* the body of checkUserLimits after the await: the response it sends, or
\* NoResp when it calls next().  q is what SupabaseService.checkUserLimits
\* did, now the value of Date.now()
checkUserLimitsVerdict(q, now) ==
  IF q.threw THEN NoResp
  ELSE IF ~q.snap.within_hourly_limit
    THEN LimitResp("Rate limit exceeded", "requests_last_hour",
                   q.snap.requests_last_hour, now + windowMs)
  ELSE IF ~q.snap.within_daily_token_limit
    THEN LimitResp("Token limit exceeded", "tokens_today",
                   q.snap.tokens_today, now + dayMs)
  ELSE IF ~q.snap.within_daily_cost_limit
    THEN LimitResp("Cost limit exceeded", "cost_today",
                   q.snap.cost_today, now + dayMs)
  ELSE NoResp

\* what the request has learnt from the limits store
LimitsSeen(q) ==
  IF q.threw THEN [NoLimits EXCEPT !.state = "failed"]
  ELSE [state |-> IF q.defaulted THEN "defaulted" ELSE "read",
        hourly |-> q.snap.within_hourly_limit,
        tokens |-> q.snap.within_daily_token_limit,
        cost |-> q.snap.within_daily_cost_limit]

\* checkUserLimits up to its await
checkUserLimits(r) ==
  /\ pc[r] = "checkUserLimits"
  /\ IF ~user[r]
       THEN /\ CallNext(r, "checkUserLimits")
            /\ UNCHANGED calls
       ELSE /\ pc' = [pc EXCEPT ![r] = "await_limits"]
            /\ calls' = [calls EXCEPT ![r].checkUserLimits = @ + 1]
            /\ UNCHANGED <<resp, trace, stage>>
  /\ UNCHANGED <<entry, hdr, model, body, path, user, verified, write, upstream,
                 limits, checkedAt, estimatedTokens, fn, faults, relay, record, profiles, quota,
                 logs, resHeaders, rpc, audit, proc>>

\* the requests the principal can still make in this hour before the
\* hourly ceiling of the store is reached, when the store is within it
Headroom == 1

\* the api_usage rows the requests of the model have added
Recorded == Cardinality({x \in Reqs : write[x] = "recorded"})

\* the ceilings as check_user_limits computes them at query time: the
\* hourly ceiling is reached once the recorded requests use up the headroom
StoreCeilings == [quota EXCEPT !.hourly = @ /\ Recorded < Headroom]

\* the row of a snapshot on its way
RowOf(a) ==
  [within_hourly_limit |-> a.within_hourly_limit,
   within_daily_token_limit |-> a.within_daily_token_limit,
   within_daily_cost_limit |-> a.within_daily_cost_limit,
   requests_last_hour |-> a.requests_last_hour, tokens_today |-> a.tokens_today,
   cost_today |-> a.cost_today]

\* the limits store executes check_user_limits for the request and sends
\* its answer: the snapshot is the usage at this moment
LimitsStoreAnswers(r) ==
  /\ pc[r] = "await_limits"
  /\ rpc[r] = NoRpc
  /\ \E o \in RpcOutcomes, row \in RowsOf(StoreCeilings) :
       rpc' = [rpc EXCEPT ![r] =
                 [o |-> o, within_hourly_limit |-> row.within_hourly_limit,
                  within_daily_token_limit |-> row.within_daily_token_limit,
                  within_daily_cost_limit |-> row.within_daily_cost_limit,
                  requests_last_hour |-> row.requests_last_hour,
                  tokens_today |-> row.tokens_today, cost_today |-> row.cost_today]]
  /\ UNCHANGED <<pc, stage, entry, hdr, model, body, path, user, verified, resp, calls,
                 trace, write, upstream, limits, checkedAt, estimatedTokens, fn, faults,
                 relay, record, profiles, quota, logs, resHeaders, audit, proc>>

\* checkUserLimits once the answer of the limits store has arrived
checkUserLimitsReturn(r) ==
  /\ pc[r] = "await_limits"
  /\ rpc[r] # NoRpc
  /\ \E now \in Times :
       LET q == supabaseCheckUserLimits(rpc[r].o, RowOf(rpc[r]))
           v == checkUserLimitsVerdict(q, now)
       IN /\ limits' = [limits EXCEPT ![r] = LimitsSeen(q)]
          /\ IF v = NoResp
               THEN /\ CallNext(r, "checkUserLimits")
                    /\ UNCHANGED checkedAt
                    /\ audit' = [audit EXCEPT !.late =
                                   IF audit.reached THEN @ \cup {r} ELSE @]
               ELSE /\ Reject(r, "checkUserLimits", v)
                    /\ checkedAt' = [checkedAt EXCEPT ![r] = now]
                    /\ UNCHANGED audit
  /\ rpc' = [rpc EXCEPT ![r] = NoRpc]
  /\ UNCHANGED <<entry, hdr, model, body, path, user, verified, calls, write, upstream,
                 estimatedTokens, fn, faults, relay, record, profiles, quota,
                 logs, resHeaders, proc>>

(***************************************************************************)
(* Token Estimator: estimateTokenUsage                                     *)
(***************************************************************************)
\* Math.floor(n / 4)
CeilDiv4_Floor(n) == n \div 4

\* Math.ceil(n / 4)
CeilDiv4(n) == (n + 3) \div 4

RECURSIVE PartsTokens(_)
\* the tokens the inner loop adds for the parts of one content
PartsTokens(ps) ==
  IF ps = <<>> THEN 0
  ELSE (IF Head(ps).text > 0 THEN CeilDiv4(Head(ps).text) ELSE 0)
       + (IF Head(ps).inlineData THEN 1000 ELSE 0)
       + PartsTokens(Tail(ps))

RECURSIVE ContentsTokens(_)
ContentsTokens(cs) ==
  IF cs = <<>> THEN 0 ELSE PartsTokens(Head(cs)) + ContentsTokens(Tail(cs))

\* req.estimatedTokens as estimateTokenUsage sets it
EstimateOf(b) ==
  LET input == (IF b.hasContents THEN ContentsTokens(b.contents)
                ELSE IF b.prompt > 0 THEN CeilDiv4(b.prompt) ELSE 0) + 100
  IN [input |-> input, total |-> input * 2]

\* the payloads estimateTokenUsage is applied to on its own.  A part is an
\* object (with a text of some length, -1 when it has none, and possibly
\* inlineData) or null; a content is an object whose parts key is absent, an
\* array of parts, or some other truthy value, or the content is null; the
\* contents key of a body is absent, an array of contents, or some other
\* truthy value; req.body itself may be undefined
SeqsUpTo(S, n) == UNION {[1..k -> S] : k \in 0..n}

Parts ==
  {[isObject |-> FALSE, text |-> -1, inlineData |-> FALSE],
   [isObject |-> TRUE, text |-> MaxText, inlineData |-> FALSE],
   [isObject |-> TRUE, text |-> MaxText - 1, inlineData |-> TRUE],
   [isObject |-> TRUE, text |-> -1, inlineData |-> TRUE]}

Contents ==
  {[isObject |-> FALSE, parts |-> "absent", items |-> <<>>],
   [isObject |-> TRUE, parts |-> "absent", items |-> <<>>],
   [isObject |-> TRUE, parts |-> "other", items |-> <<>>]}
  \cup {[isObject |-> TRUE, parts |-> "array", items |-> ps] :
          ps \in SeqsUpTo(Parts, MaxParts)}

Payloads ==
  {[present |-> FALSE, contents |-> "absent", items |-> <<>>, prompt |-> -1],
   [present |-> TRUE, contents |-> "absent", items |-> <<>>, prompt |-> -1],
   [present |-> TRUE, contents |-> "absent", items |-> <<>>, prompt |-> MaxText],
   [present |-> TRUE, contents |-> "other", items |-> <<>>, prompt |-> MaxText]}
  \cup {[present |-> TRUE, contents |-> "array", items |-> cs, prompt |-> -1] :
          cs \in SeqsUpTo(Contents, MaxContents)}

\* the outcome of a piece of the walk: it raised, or it added tokens
Raised == [raised |-> TRUE, tokens |-> 0]
Added(n) == [raised |-> FALSE, tokens |-> n]
Then(a, b) ==
  IF a.raised \/ b.raised THEN Raised ELSE Added(a.tokens + b.tokens)

\* the body of the inner loop for one part: part.text and part.inlineData of
\* null raise
WalkPart(part) ==
  IF ~part.isObject THEN Raised
  ELSE Added((IF part.text > 0 THEN CeilDiv4(part.text) ELSE 0)
             + (IF part.inlineData THEN 1000 ELSE 0))

RECURSIVE WalkParts(_)
WalkParts(ps) ==
  IF ps = <<>> THEN Added(0) ELSE Then(WalkPart(Head(ps)), WalkParts(Tail(ps)))

\* the body of the outer loop for one content: content.parts of null raises
WalkContent(content) ==
  IF ~content.isObject THEN Raised
  ELSE IF content.parts = "array" THEN WalkParts(content.items)
  ELSE Added(0)

RECURSIVE WalkContents(_)
WalkContents(cs) ==
  IF cs = <<>> THEN Added(0) ELSE Then(WalkContent(Head(cs)), WalkContents(Tail(cs)))

\* the try block up to the buffer: body.contents of undefined raises
WalkPayload(p) ==
  IF ~p.present THEN Raised
  ELSE IF p.contents = "array" THEN WalkContents(p.items)
  ELSE IF p.prompt > 0 THEN Added(CeilDiv4(p.prompt))
  ELSE Added(0)

\* an estimator whose catch answers 500 instead of going on
estimateTokenUsageRun_Blocking(p) ==
  LET w == WalkPayload(p)
  IN IF w.raised
       THEN [input |-> 0, total |-> 0, nextCalls |-> 0, sent |-> TRUE]
       ELSE [input |-> w.tokens + 100, total |-> (w.tokens + 100) * 2,
             nextCalls |-> 1, sent |-> FALSE]

\* estimateTokenUsage as a whole: req.estimatedTokens, the number of calls of
\* next, and whether a response was sent
estimateTokenUsageRun(p) ==
  LET w == WalkPayload(p)
  IN IF w.raised
       THEN [input |-> 0, total |-> 0, nextCalls |-> 1, sent |-> FALSE]
       ELSE [input |-> w.tokens + 100, total |-> (w.tokens + 100) * 2,
             nextCalls |-> 1, sent |-> FALSE]

estimateTokenUsage(r) ==
  /\ pc[r] = "estimateTokenUsage"
  /\ estimatedTokens' = [estimatedTokens EXCEPT ![r] = EstimateOf(body[r])]
  /\ CallNext(r, "estimateTokenUsage")
  /\ UNCHANGED <<entry, hdr, model, body, path, user, verified, calls, write, upstream,
                 limits, checkedAt, fn, faults, relay, record, profiles, quota,
                 logs, resHeaders, rpc, audit, proc>>

(***************************************************************************)
(* Pricing Table, Cost Calculator, Usage Extractor                         *)
(***************************************************************************)
\* config.pricing.  A rate of 1000000 / p tokens per dollar is kept as p, the
\* price of a million tokens, in units of 1e-4 dollar; outZero marks the
\* entry whose outputTokensPerDollar is the literal 0
Price(i, o) == [input |-> i, output |-> o, outZero |-> FALSE]

PricedModels == {"gemini-pro", "gemini-pro-vision", "gemini-1.5-pro",
                 "gemini-1.5-pro-latest", "gemini-1.5-flash",
                 "gemini-1.5-flash-latest", "gemini-1.5-flash-8b",
                 "gemini-1.5-flash-8b-latest", "gemini-embedding-001",
                 "gemini-2.0-flash-exp", "gemini-2.5-pro", "gemini-2.5-pro-latest"}

Pricing(m) ==
  CASE m \in {"gemini-pro", "gemini-pro-vision"} -> Price(5000, 15000)
    [] m \in {"gemini-1.5-pro", "gemini-1.5-pro-latest",
              "gemini-2.5-pro", "gemini-2.5-pro-latest"} -> Price(35000, 105000)
    [] m \in {"gemini-1.5-flash", "gemini-1.5-flash-latest",
              "gemini-2.0-flash-exp"} -> Price(750, 3000)
    [] m \in {"gemini-1.5-flash-8b", "gemini-1.5-flash-8b-latest"} -> Price(375, 1500)
    [] m = "gemini-embedding-001" -> [input |-> 1500, output |-> 0, outZero |-> TRUE]

\* a cost is a number of 1e-10 dollar, or one of the IEEE values NaN, Infinity
Num(v) == [kind |-> "num", v |-> v]
NaN == [kind |-> "NaN", v |-> 0]
Infinity == [kind |-> "Infinity", v |-> 0]
\* a / b of two non-negative doubles where b may be the literal 0
Divide(tokens, price, zeroRate) ==
  IF zeroRate THEN (IF tokens = 0 THEN NaN ELSE Infinity) ELSE Num(tokens * price)

\* a + b of two doubles
Plus(a, b) ==
  IF a.kind = "NaN" \/ b.kind = "NaN" THEN NaN
  ELSE IF a.kind = "Infinity" \/ b.kind = "Infinity" THEN Infinity
  ELSE Num(a.v + b.v)

calculateCost(inputTokens, outputTokens, modelName) ==
  LET pricing == IF modelName \in PricedModels THEN Pricing(modelName)
                 ELSE Pricing("gemini-pro")
      inputCost == Divide(inputTokens, pricing.input, FALSE)
      outputCost == Divide(outputTokens, pricing.output, pricing.outZero)
  IN Plus(inputCost, outputCost)

\* a === b of two doubles
JsEquals(a, b) == a.kind # "NaN" /\ b.kind # "NaN" /\ a = b

\* 2 * a of a double
Twice(a) == IF a.kind = "num" THEN Num(2 * a.v) ELSE a

\* Number.isFinite(a) && a >= 0
FiniteNonNegative(a) == a.kind = "num" /\ a.v >= 0

\* the model ids calculateCost is applied to: the entries of the pricing
\* table and ids that are not in it
CostModels == PricedModels \cup {"text-embedding-004", "gpt-4"}

\* the token counts calculateCost is applied to
TokenCounts == 0..MaxTokens

\* a display value that drops the digits after the sixth
ToFixed6_Truncate(cost) ==
  IF cost.kind = "num" THEN Num(cost.v \div 10000) ELSE cost

\* parseFloat(cost.toFixed(6)): a number of 1e-6 dollar
ToFixed6(cost) ==
  IF cost.kind = "num" THEN Num((cost.v + 5000) \div 10000) ELSE cost

\* what the provider can answer to an upstream call: a 2xx response with or
\* without a usageMetadata block, a non-2xx response with (meta) or without
\* a structured error body {error: {code, message, details}}, or no
\* response at all; code is then the code of the error the HTTP client
\* rejects with ("none" when the error carries no code)
OkWithUsage == [kind |-> "ok", status |-> 200, meta |-> TRUE, code |-> "none",
                prompt |-> 6, cand |-> 3, total |-> 9, textLen |-> 5]
OkNoUsage == [kind |-> "ok", status |-> 200, meta |-> FALSE, code |-> "none",
              prompt |-> 0, cand |-> 0, total |-> 0, textLen |-> 5]
ProviderError == [kind |-> "error", status |-> 429, meta |-> TRUE, code |-> "none",
                  prompt |-> 0, cand |-> 0, total |-> 0, textLen |-> 0]
ProviderErrorPlain == [ProviderError EXCEPT !.status = 502, !.meta = FALSE]
NetworkError(c) == [kind |-> "network", status |-> 0, meta |-> FALSE, code |-> c,
                    prompt |-> 0, cand |-> 0, total |-> 0, textLen |-> 0]
NetworkFailure == NetworkError("ECONNRESET")
RefusedCodes == {"ECONNREFUSED", "ENOTFOUND"}
TimeoutCodes == {"ETIMEDOUT", "ECONNABORTED"}
NetworkCodes == RefusedCodes \cup TimeoutCodes \cup {"ECONNRESET"}
ProviderAnswers ==
  {OkWithUsage, OkNoUsage, ProviderError, ProviderErrorPlain}
    \cup {NetworkError(c) : c \in NetworkCodes}

\* a response that declares content type application/json with a body that
\* is not JSON
Garbled == [kind |-> "garbled", status |-> 200, meta |-> FALSE, code |-> "none",
            prompt |-> 0, cand |-> 0, total |-> 0, textLen |-> 5]

\* a 2xx response whose JSON body is null: axios hands it over with
\* response.data = null
NullBody == [kind |-> "null", status |-> 200, meta |-> FALSE, code |-> "none",
             prompt |-> 0, cand |-> 0, total |-> 0, textLen |-> 0]

\* a 2xx response whose usageMetadata has promptTokenCount and
\* candidatesTokenCount and no totalTokenCount
OkNoTotal == [OkWithUsage EXCEPT !.total = 0]

\* the provider has sent a 2xx response
Answered2xx(a) == a.kind \in {"ok", "null"}

\* the answers the upstream call of entry point e can settle with; the
\* transparent proxy routes parse the body themselves, generateContent and
\* countTokens read properties of response.data
AnswersOf(e) ==
  IF e \in TransparentRoutes THEN ProviderAnswers \cup {Garbled}
  ELSE IF e = "generateContent" THEN ProviderAnswers \cup {NullBody, OkNoTotal}
  ELSE IF e = "countTokens" THEN ProviderAnswers \cup {NullBody}
  ELSE ProviderAnswers

\* extractTokenUsage for a 2xx answer a
extractTokenUsage(a) ==
  IF a.meta
    THEN [promptTokenCount |-> a.prompt, candidatesTokenCount |-> a.cand,
          totalTokenCount |-> a.total]
    ELSE LET outputTokens == IF a.textLen > 0 THEN CeilDiv4(a.textLen) ELSE 0
         IN [promptTokenCount |-> 0, candidatesTokenCount |-> outputTokens,
             totalTokenCount |-> outputTokens]

\* the provider responses extractTokenUsage is applied to on its own.  The
\* response is an object or null; its data is absent or an object; the
\* usageMetadata of the data is absent or an object whose counts may be
\* absent (-1); candidates is absent, an array, or some other truthy value
\* that cannot be iterated; a candidate is null or an object whose content
\* is absent or an object; the parts of a content are absent, an array, or
\* not iterable; a part is null or an object with a text (-1 when absent)
TextParts ==
  {[isObject |-> FALSE, text |-> -1],
   [isObject |-> TRUE, text |-> MaxText],
   [isObject |-> TRUE, text |-> MaxText - 1]}

Candidates ==
  {[isObject |-> FALSE, content |-> "absent", parts |-> "absent", items |-> <<>>],
   [isObject |-> TRUE, content |-> "absent", parts |-> "absent", items |-> <<>>],
   [isObject |-> TRUE, content |-> "object", parts |-> "absent", items |-> <<>>],
   [isObject |-> TRUE, content |-> "object", parts |-> "other", items |-> <<>>]}
  \cup {[isObject |-> TRUE, content |-> "object", parts |-> "array", items |-> ps] :
          ps \in SeqsUpTo(TextParts, MaxParts)}

NoMetadata == [present |-> FALSE, prompt |-> -1, cand |-> -1, total |-> -1]
Metadatas ==
  {NoMetadata,
   [present |-> TRUE, prompt |-> 6, cand |-> 3, total |-> 9],
   [present |-> TRUE, prompt |-> 6, cand |-> -1, total |-> -1]}

Responses ==
  {[isObject |-> FALSE, data |-> "absent", meta |-> NoMetadata,
    candidates |-> "absent", items |-> <<>>],
   [isObject |-> TRUE, data |-> "absent", meta |-> NoMetadata,
    candidates |-> "absent", items |-> <<>>]}
  \cup {[isObject |-> TRUE, data |-> "object", meta |-> m,
          candidates |-> "other", items |-> <<>>] : m \in Metadatas}
  \cup {[isObject |-> TRUE, data |-> "object", meta |-> m,
          candidates |-> "absent", items |-> <<>>] : m \in Metadatas}
  \cup {[isObject |-> TRUE, data |-> "object", meta |-> m,
          candidates |-> "array", items |-> cs] :
          m \in Metadatas, cs \in SeqsUpTo(Candidates, MaxContents)}

\* the inner loop of the fallback for one part: part.text of null raises
ScanPart(part) ==
  IF ~part.isObject THEN Raised
  ELSE Added(IF part.text > 0 THEN CeilDiv4(part.text) ELSE 0)

RECURSIVE ScanParts(_)
ScanParts(ps) ==
  IF ps = <<>> THEN Added(0) ELSE Then(ScanPart(Head(ps)), ScanParts(Tail(ps)))

\* the outer loop of the fallback for one candidate: candidate.content of
\* null raises, and so does iterating parts that are not iterable
ScanCandidate(c) ==
  IF ~c.isObject THEN Raised
  ELSE IF c.content = "absent" \/ c.parts = "absent" THEN Added(0)
  ELSE IF c.parts = "other" THEN Raised
  ELSE ScanParts(c.items)

RECURSIVE ScanCandidates(_)
ScanCandidates(cs) ==
  IF cs = <<>> THEN Added(0)
  ELSE Then(ScanCandidate(Head(cs)), ScanCandidates(Tail(cs)))

\* count || 0
OrZero(n) == IF n > 0 THEN n ELSE 0

ZeroUsage == [threw |-> FALSE, promptTokenCount |-> 0, candidatesTokenCount |-> 0,
              totalTokenCount |-> 0]

\* the try block of extractTokenUsage: what it returns, or that it raised
ExtractTry(response) ==
  IF ~response.isObject THEN Raised
  ELSE IF response.data = "object" /\ response.meta.present THEN Added(0)
  ELSE IF response.data = "absent" \/ response.candidates = "absent" THEN Added(0)
  ELSE IF response.candidates = "other" THEN Raised
  ELSE ScanCandidates(response.items)

\* an extractTokenUsage without its catch
extractTokenUsageRun_NoCatch(response) ==
  LET t == ExtractTry(response)
  IN IF t.raised THEN [ZeroUsage EXCEPT !.threw = TRUE]
     ELSE IF response.data = "object" /\ response.meta.present
       THEN [threw |-> FALSE, promptTokenCount |-> OrZero(response.meta.prompt),
             candidatesTokenCount |-> OrZero(response.meta.cand),
             totalTokenCount |-> OrZero(response.meta.total)]
     ELSE [threw |-> FALSE, promptTokenCount |-> 0, candidatesTokenCount |-> t.tokens,
           totalTokenCount |-> t.tokens]

\* extractTokenUsage as a whole: the usage it returns; threw tells whether
\* an exception leaves the function
extractTokenUsageRun(response) ==
  LET t == ExtractTry(response)
  IN IF t.raised THEN ZeroUsage
     ELSE IF response.data = "object" /\ response.meta.present
       THEN [threw |-> FALSE, promptTokenCount |-> OrZero(response.meta.prompt),
             candidatesTokenCount |-> OrZero(response.meta.cand),
             totalTokenCount |-> OrZero(response.meta.total)]
     ELSE [threw |-> FALSE, promptTokenCount |-> 0, candidatesTokenCount |-> t.tokens,
           totalTokenCount |-> t.tokens]

(***************************************************************************)
(* Upstream Forwarder and Usage Recorder: the route handlers,              *)
(* GeminiService.generateContent / streamGenerateContent / countTokens /   *)
(* generateEmbeddings / listModels / recordUsage, the transparent proxy    *)
(***************************************************************************)
\* entry points whose service method records usage after a 2xx answer
RecordingRoutes == {"generateContent", "embeddings"}

\* requestType handed to recordUsage
RequestType(e) == IF e = "embeddings" THEN "embedding" ELSE "generate"

\* inputTokens of generateEmbeddings
EmbeddingInputTokens(b) == IF b.hasModel THEN CeilDiv4(b.jsonLen) ELSE 0

\* the tokenUsage.totalTokenCount and cost the service method computes for
\* the 2xx answer a
UsageOf(e, m, b, a) ==
  IF e = "embeddings"
    THEN [tokens |-> EmbeddingInputTokens(b),
          cost |-> calculateCost(EmbeddingInputTokens(b), 0, m)]
    ELSE LET u == extractTokenUsage(a)
         IN [tokens |-> u.totalTokenCount,
             cost |-> calculateCost(u.promptTokenCount, u.candidatesTokenCount, m)]

\* a recordUsage whose failure reaches the try block of the service method
recordUsageThrows_Propagates(w) == w = "failed"

\* the call this.recordUsage(...).catch(...) raises into the try block of
\* generateContent / generateEmbeddings when the write is in state w: never,
\* recordUsage catches what the store throws and the promise has a catch
recordUsageThrows(w) == FALSE

\* a service method that awaits the usage write before it returns
resultReady_Awaited(w) == w # "pending"

\* the promise of generateContent / generateEmbeddings can settle when the
\* write is in state w: always, the write is not awaited
resultReady(w) == TRUE

\* a recordUsage that issues the insert again after a failure
recordUsageSettle_Retry(o) == IF o = "ok" THEN "recorded" ELSE "pending"

\* the state of the write after the store answered o to the insert:
\* recordUsage logs a failure and returns; "pending" would be a new attempt
recordUsageSettle(o) == IF o = "ok" THEN "recorded" ELSE "failed"

(* The outbound request of the transparent proxy route.  A URL is a        *)
(* sequence of pieces: the mount prefix as the client wrote it, path       *)
(* pieces, and a query string piece that starts with '?'.                  *)
MountPrefix == "/api/gemini"
\* the mount prefix in another case: app.use('/api/gemini', ..) matches it
\* too, Express routes case-insensitively unless told otherwise
UpperPrefix == "/API/GEMINI"
ModelsPath == "/v1beta/models"
Query == "?alt=sse"
GoogleBase == "https://generativelanguage.googleapis.com"
ApiKey == "<config.gemini.apiKey>"
BearerValue == "Bearer <token>"

\* req.originalUrl of the requests the route is mounted for
OriginalUrls ==
  {<<m>> \o rest :
     m \in {MountPrefix, UpperPrefix},
     rest \in {<<>>, <<ModelsPath>>, <<Query>>, <<ModelsPath, Query>>,
               <<ModelsPath, MountPrefix>>}}

\* String.prototype.replace(piece, ''): the first occurrence is removed
RemoveFirst(u, piece) ==
  IF \E i \in 1..Len(u) : u[i] = piece
    THEN LET i == CHOOSE i \in 1..Len(u) :
                    u[i] = piece /\ \A j \in 1..(i - 1) : u[j] # piece
         IN SubSeq(u, 1, i - 1) \o SubSeq(u, i + 1, Len(u))
    ELSE u

\* const path = req.originalUrl.replace('/api/gemini', ''); the second route
\* continues with || '/v1beta/models'
ProxyPath(e, u) ==
  LET stripped == RemoveFirst(u, MountPrefix)
  IN IF e = "transparentNodeFetch" /\ stripped = <<>> THEN <<ModelsPath>> ELSE stripped

\* path.includes('?') ? '&' : '?'
separator(pth) == IF \E i \in 1..Len(pth) : pth[i] = Query THEN "&" ELSE "?"

\* `https://generativelanguage.googleapis.com${path}${separator}key=${apiKey}`
googleUrl(e, u) ==
  <<GoogleBase>> \o ProxyPath(e, u) \o <<separator(ProxyPath(e, u)), "key=", ApiKey>>

\* req.headers of an authenticated request: node lower-cases the names
HeaderNames == {"host", "authorization", "user-agent", "accept"}
HeaderValue(n) ==
  CASE n = "host" -> "proxy.example"
    [] n = "authorization" -> BearerValue
    [] n = "user-agent" -> "client-agent/1.0"
    [] n = "accept" -> "*/*"
InboundHeaders ==
  {[n \in N \cup {"host", "authorization"} |-> HeaderValue(n)] :
     N \in SUBSET {"user-agent", "accept"}}

\* forwardHeaders = {...req.headers} without host and authorization
forwardHeaders(h) == [n \in DOMAIN h \ {"host", "authorization"} |-> h[n]]

\* the User-Agent literal of each route
ProxyUserAgent(e) == IF e = "transparent" THEN "PerceptEye-Proxy/1.0.0" ELSE "curl/8.7.1"

\* headers: {...forwardHeaders, 'User-Agent': ..}: an object whose keys are
\* the lower-case names of forwardHeaders and the key 'User-Agent'
FetchHeaders(e, h) ==
  [k \in DOMAIN forwardHeaders(h) \cup {"User-Agent"} |->
     IF k = "User-Agent" THEN ProxyUserAgent(e) ELSE h[k]]

\* header names are case-insensitive once the object is handed to fetch
LowerCase(k) == IF k = "User-Agent" THEN "user-agent" ELSE k

\* new Headers(object) appends every key of the object, so two keys that
\* differ in case only are both sent: the (name, value) pairs of the
\* outbound request
SentHeaders(obj) == {<<LowerCase(k), obj[k]>> : k \in DOMAIN obj}

\* body: req.method !== 'GET' && req.method !== 'HEAD' ? JSON.stringify(..) : undefined
Methods == {"GET", "HEAD", "POST", "DELETE"}
SendsBody(m) == m # "GET" /\ m # "HEAD"

\* the message a service method falls back on when the error body of the
\* provider has no error.message
DefaultMessage(e) ==
  CASE e = "generateContent" -> "Gemini API error"
    [] e = "streamGenerateContent" -> "Gemini streaming API error"
    [] e = "countTokens" -> "Gemini token count error"
    [] e = "embeddings" -> "Gemini embedding API error"
    [] e = "models" -> "Failed to list models"

\* the message a service method throws when the call got no response
ConnectMessage(e) ==
  CASE e = "generateContent" -> "Failed to connect to Gemini API"
    [] e = "streamGenerateContent" -> "Failed to connect to Gemini streaming API"
    [] e = "countTokens" -> "Failed to connect to Gemini API for token counting"
    [] e = "embeddings" -> "Failed to connect to Gemini embedding API"
    [] e = "models" -> "Failed to connect to Gemini API"

\* error.response.data.error is an object for entry point e and answer a:
\* axios parses a JSON body, but with responseType 'stream' the data of the
\* response is the unread stream, which has no error property
ErrorBodyParsed(e, a) == a.meta /\ e # "streamGenerateContent"

\* the {status, code, message} a service method throws for answer a: an
\* axios error of a non-2xx response has error.response; every other error
\* caught by the method (no response, or a TypeError raised in its try
\* block by response.data.usageMetadata / .totalTokens of a null body) has not
ThrownBy(e, a) ==
  IF a.kind = "error"
    THEN IF ErrorBodyParsed(e, a)
           THEN [status |-> a.status, code |-> "PROVIDER_CODE",
                 message |-> "PROVIDER_MESSAGE"]
           ELSE [status |-> a.status, code |-> "UNKNOWN_ERROR",
                 message |-> DefaultMessage(e)]
    ELSE [status |-> 500, code |-> "CONNECTION_ERROR", message |-> ConnectMessage(e)]

\* the catch block of a model route:
\* res.status(error.status || 500).json({error: error.code || .., message})
RouteCatch(error) ==
  ErrorMessageResp(IF error.status = 0 THEN 500 ELSE error.status,
                   IF error.code = "" THEN "INTERNAL_ERROR" ELSE error.code,
                   IF error.message = "" THEN "An unexpected error occurred"
                   ELSE error.message)

\* what fetch of node-fetch 2 puts in the message of the error it rejects
\* with ("request to <url> failed, reason: ..", "network timeout at: <url>")
\* and the global fetch does not ("fetch failed"): the URL of the request
FetchErrorNamesUrl(e) == e = "transparentNodeFetch"

\* the catch block of the transparent proxy route: the second route adds
\* details {errorType, errorMessage: error.message} to the body, and the
\* request URL ends with key=<the provider API key>
ProxyCatch(e) ==
  [ErrorMessageResp(500, "PROXY_ERROR", "Failed to proxy request to Google API")
     EXCEPT !.contains = IF FetchErrorNamesUrl(e) THEN {"apiKey"} ELSE {}]

\* response.json() of a fetch response with answer a: the body can be
\* consumed once; a second read rejects (node-fetch: 'body used already
\* for: <url>'), a first read rejects when the body is not JSON
ReadJson(a, disturbed) ==
  IF disturbed THEN "body-used"
  ELSE IF a.kind = "garbled" THEN "invalid-json" ELSE "data"

\* response.text() of a fetch response
ReadText(disturbed) == IF disturbed THEN "body-used" ELSE "text"

\* the response of the inner catch of the second transparent proxy route;
\* details.parseError is the message of the parse error, which names the URL
ProxyParseError ==
  [ErrorMessageResp(502, "PROXY_PARSE_ERROR", "Failed to parse response from Google API")
     EXCEPT !.contains = {"apiKey"}]

\* how the transparent proxy route e gets from the answer a to its
\* response: the body is read; when the read rejects, the second route
\* reads the body again as text in its inner catch, before it logs and
\* answers 502; an error thrown there goes to the outer catch
ProxyOutcome(e, a) ==
  IF a.kind = "network" THEN "caught"
  ELSE IF ReadJson(a, FALSE) = "data" THEN "relayed"
  ELSE IF e = "transparentNodeFetch" /\ ReadText(TRUE) = "text" THEN "parse_error"
  ELSE "caught"

\* what the handler of request r sends once the service call has settled
ClientResponse(r) ==
  LET a == upstream[r]
      e == entry[r]
  IN IF e \in TransparentRoutes
       THEN CASE ProxyOutcome(e, a) = "caught" -> ProxyCatch(e)
              [] ProxyOutcome(e, a) = "parse_error" -> ProxyParseError
              [] OTHER -> DataResp(a.status, [NoData EXCEPT !.kind = "proxied", !.answer = a])
     ELSE IF a.kind # "ok" THEN RouteCatch(ThrownBy(e, a))
     ELSE IF e \in RecordingRoutes
       THEN IF recordUsageThrows(write[r])
              THEN RouteCatch(ThrownBy(e, NetworkFailure))
            ELSE DataResp(a.status,
                   [kind |-> e, cost |-> ToFixed6(record[r].cost),
                    tokens |-> IF e = "embeddings" THEN record[r].tokens ELSE 0,
                    model |-> model[r], answer |-> a])
     ELSE DataResp(a.status, [NoData EXCEPT !.kind = e, !.answer = a])

\* a log record: its message and how the provider API key shows in it:
\* "clear" when a field of the record holds the key, "masked" when the
\* fields that hold the upstream URL hold it with the key replaced
LogRecord(msg, key) == [message |-> msg, apiKey |-> key]

\* the records written before the upstream call is issued: the service
\* methods and the first transparent proxy route log url.replace(apiKey, ..);
\* the second transparent proxy route logs fullGoogleUrl: googleUrl too
RequestLogs(e) ==
  CASE e = "transparent" -> {LogRecord("Proxying request", "masked")}
    [] e = "transparentNodeFetch" ->
         {LogRecord("Proxying request", "clear"),
          LogRecord("Making fetch request", "masked")}
    [] e = "generateContent" -> {LogRecord("Making Gemini API request", "masked")}
    [] e = "streamGenerateContent" ->
         {LogRecord("Making Gemini streaming API request", "masked")}
    [] e = "countTokens" -> {LogRecord("Making Gemini token count request", "masked")}
    [] e = "embeddings" -> {LogRecord("Making Gemini embedding request", "masked")}
    [] e = "models" -> {LogRecord("Listing Gemini models", "masked")}

\* the records written when the upstream call has settled with answer a:
\* a service method logs its completion, or its failure with the message
\* of the axios error, which does not name the URL
SettleLogs(e, a) ==
  IF e \in TransparentRoutes
    THEN IF e = "transparentNodeFetch" /\ a.kind # "network"
           THEN {LogRecord("Fetch response received", "absent")} ELSE {}
  ELSE IF a.kind = "ok" THEN {LogRecord("request completed", "absent")}
  ELSE IF a.kind = "null" /\ e = "generateContent"
    THEN {LogRecord("request completed", "absent"), LogRecord("request failed", "absent")}
  ELSE {LogRecord("request failed", "absent")}

\* the records written by the catch block of the handler: the second
\* transparent proxy route logs fullGoogleUrl: googleUrl and error.message
CatchLogs(e, a) ==
  IF e \in TransparentRoutes
    THEN CASE ProxyOutcome(e, a) = "caught" ->
                {LogRecord("Proxy error",
                           IF e = "transparentNodeFetch" THEN "clear" ELSE "absent")}
           [] ProxyOutcome(e, a) = "parse_error" ->
                {LogRecord("Failed to parse Google API response", "absent")}
           [] OTHER -> {}
  ELSE IF a.kind # "ok" THEN {LogRecord("handler error", "absent")}
  ELSE {}

\* the headers the handler sets with res.set before it sends a response
\* built from the answer of the service method; a catch block sets none
HandlerHeaders(r) ==
  LET a == upstream[r]
      e == entry[r]
  IN IF e \in TransparentRoutes
       THEN IF ProxyOutcome(e, a) = "relayed" THEN {"X-User-ID", "X-Request-ID"} ELSE {}
     ELSE IF a.kind # "ok" \/ (e \in RecordingRoutes /\ recordUsageThrows(write[r]))
       THEN {}
     ELSE IF e = "models" THEN {"Content-Type", "X-User-ID", "X-Request-ID"}
     ELSE {"Content-Type", "X-User-ID", "X-Model", "X-Request-ID"}

\* the service method issues its upstream call
IssueUpstream(r) ==
  /\ pc' = [pc EXCEPT ![r] = "await_upstream"]
  /\ calls' = [calls EXCEPT ![r].upstream = @ + 1]
  /\ trace' = [trace EXCEPT ![r] = Started(@, "upstream")]
  /\ logs' = [logs EXCEPT ![r] = @ \cup RequestLogs(entry[r])]
  /\ UNCHANGED <<resp, stage>>

\* the route handler up to its first await
Handler(r) ==
  /\ pc[r] = "handler"
  /\ CASE entry[r] = "health" ->
            /\ Reject(r, "handler", DataResp(200, [NoData EXCEPT !.kind = "health"]))
            /\ UNCHANGED <<calls, body, logs>>
       [] entry[r] = "usage" ->
            /\ pc' = [pc EXCEPT ![r] = "await_usage"]
            /\ calls' = [calls EXCEPT ![r].checkUserLimits = @ + 1]
            /\ UNCHANGED <<resp, trace, stage, body, logs>>
       [] entry[r] = "embeddings" ->
            \E b \in Bodies :
              /\ body' = [body EXCEPT ![r] = b]
              /\ IF model[r] \notin EmbeddingModels
                   THEN /\ Reject(r, "handler", ErrorResp(400, "Invalid model for embeddings"))
                        /\ UNCHANGED <<calls, logs>>
                   ELSE IssueUpstream(r)
       [] OTHER -> IssueUpstream(r) /\ UNCHANGED body
  /\ UNCHANGED <<entry, hdr, model, path, user, verified, write, upstream,
                 limits, checkedAt, estimatedTokens, fn, faults, relay, record, profiles, quota,
                 resHeaders, rpc, audit, proc>>

\* GET /usage: getUserUsageSummary and checkUserLimits have both answered
UsageReturn(r) ==
  /\ pc[r] = "await_usage"
  /\ \/ Reject(r, "handler", DataResp(200, [NoData EXCEPT !.kind = "usage"]))
     \/ Reject(r, "handler", ErrorResp(500, "INTERNAL_ERROR"))
  /\ UNCHANGED <<entry, hdr, model, body, path, user, verified, calls, write, upstream,
                 limits, checkedAt, estimatedTokens, fn, faults, relay, record, profiles, quota,
                 logs, resHeaders, rpc, audit, proc>>

\* the upstream call of the service method has settled with answer a; on a
\* 2xx answer generateContent / generateEmbeddings extract the usage, compute
\* the cost and start the usage write
UpstreamSettle(r, a) ==
  /\ pc[r] = "await_upstream"
  /\ upstream' = [upstream EXCEPT ![r] = a]
  /\ IF Answered2xx(a) /\ entry[r] \in RecordingRoutes /\ user[r]
       THEN LET u == UsageOf(entry[r], model[r], body[r], a)
            IN /\ record' = [record EXCEPT ![r] =
                     [tokens |-> u.tokens, cost |-> u.cost, model |-> model[r],
                      type |-> RequestType(entry[r])]]
               /\ write' = [write EXCEPT ![r] = "pending"]
               /\ calls' = [calls EXCEPT ![r].recordUsage = @ + 1]
               /\ trace' = [trace EXCEPT ![r] =
                     Started(Ended(Started(Ended(@, "upstream"), "extract"),
                                   "extract"), "recordUsage")]
       ELSE /\ trace' = [trace EXCEPT ![r] = Ended(@, "upstream")]
            /\ UNCHANGED <<record, write, calls>>
  /\ logs' = [logs EXCEPT ![r] = @ \cup SettleLogs(entry[r], a)]
  /\ pc' = [pc EXCEPT ![r] = "service_returned"]
  /\ UNCHANGED <<stage, entry, hdr, model, body, path, user, verified, resp,
                 limits, checkedAt, estimatedTokens, fn, faults, relay, profiles, quota,
                 resHeaders, rpc, audit, proc>>

\* the provider (or the network) has answered the upstream call
UpstreamReturn(r) == \E a \in AnswersOf(entry[r]) : UpstreamSettle(r, a)

\* the entry points whose upstream call is issued with a timeout option:
\* the axios calls of GeminiService and the node-fetch call of the second
\* transparent proxy route; the global fetch of the first transparent proxy
\* route and the fetch of proxyToGoogle are issued without one
HasTimeout(e) == e \in ModelRoutes \cup {"models", "transparentNodeFetch"}

\* the error of an expired timeout: axios rejects with code ECONNABORTED,
\* node-fetch with an error of type 'request-timeout' that has no code
TimeoutError(e) ==
  NetworkError(IF e = "transparentNodeFetch" THEN "none" ELSE "ECONNABORTED")

\* the timeout of the upstream call expires: the client rejects without a response
UpstreamTimeout(r) ==
  /\ HasTimeout(entry[r])
  /\ UpstreamSettle(r, TimeoutError(entry[r]))

\* the handler resumes with the result (or the exception) of the service
\* method and sends the response; a 2xx stream is then piped to the client
HandlerRespond(r) ==
  /\ pc[r] = "service_returned"
  /\ resultReady(write[r])
  /\ resp' = [resp EXCEPT ![r] = ClientResponse(r)]
  /\ pc' = [pc EXCEPT ![r] =
        IF entry[r] = "streamGenerateContent" /\ upstream[r].kind = "ok"
          THEN "relaying" ELSE "done"]
  /\ trace' = [trace EXCEPT ![r] = Ended(@, "handler")]
  /\ logs' = [logs EXCEPT ![r] = @ \cup CatchLogs(entry[r], upstream[r])]
  /\ resHeaders' = [resHeaders EXCEPT ![r] = @ \cup HandlerHeaders(r)]
  /\ relay' = [relay EXCEPT ![r].source =
        IF entry[r] = "streamGenerateContent" /\ upstream[r].kind = "ok"
          THEN "flowing" ELSE @]
  /\ UNCHANGED <<stage, entry, hdr, model, body, path, user, verified, calls, write,
                 upstream, limits, checkedAt, estimatedTokens, fn, faults, record, profiles, quota, rpc, audit, proc>>

\* the upstream stream ends while it is piped to the response: pipe ends
\* the response, the upstream connection is done with
StreamEnd(r) ==
  /\ pc[r] = "relaying"
  /\ relay[r].source = "flowing"
  /\ pc' = [pc EXCEPT ![r] = "done"]
  /\ relay' = [relay EXCEPT ![r].source = "ended"]
  /\ UNCHANGED <<stage, entry, hdr, model, body, path, user, verified, resp, calls,
                 trace, write, upstream, limits, checkedAt, estimatedTokens, fn,
                 faults, record, profiles, quota,
                 logs, resHeaders, rpc, audit, proc>>

\* the upstream stream emits 'error' while it is piped to the response:
\* pipe unpipes the source and does not end the response; the 'error'
\* listener of the handler logs, and sends 500 STREAM_ERROR only when no
\* chunk has been written yet (!res.headersSent)
StreamError(r) ==
  /\ pc[r] = "relaying"
  /\ relay[r].source = "flowing"
  /\ relay' = [relay EXCEPT ![r].source = "errored"]
  /\ logs' = [logs EXCEPT ![r] = @ \cup {LogRecord("Stream error", "absent")}]
  /\ \E headersSent \in BOOLEAN :
       IF headersSent
         THEN UNCHANGED <<pc, resp>>
         ELSE /\ pc' = [pc EXCEPT ![r] = "done"]
              /\ resp' = [resp EXCEPT ![r] =
                    ErrorMessageResp(500, "STREAM_ERROR", "Streaming failed")]
  /\ UNCHANGED <<stage, entry, hdr, model, body, path, user, verified, calls,
                 trace, write, upstream, limits, checkedAt, estimatedTokens, fn,
                 faults, record, profiles, quota, resHeaders, rpc, audit, proc>>

\* the client disconnects while the stream is relayed: the response emits
\* 'close' and pipe unpipes the source, which stops flowing; no handler of
\* the route destroys the source
ClientDisconnect(r) ==
  /\ pc[r] = "relaying"
  /\ relay[r] = [client |-> "connected", source |-> "flowing"]
  /\ relay' = [relay EXCEPT ![r] = [client |-> "gone", source |-> "paused"]]
  /\ UNCHANGED <<pc, stage, entry, hdr, model, body, path, user, verified, resp, calls,
                 trace, write, upstream, limits, checkedAt, estimatedTokens, fn,
                 faults, record, profiles, quota,
                 logs, resHeaders, rpc, audit, proc>>

\* the provider gives up the connection of a stream nobody reads
ProviderCloses(r) ==
  /\ pc[r] = "relaying"
  /\ relay[r].source = "paused"
  /\ pc' = [pc EXCEPT ![r] = "done"]
  /\ relay' = [relay EXCEPT ![r].source = "closed"]
  /\ UNCHANGED <<stage, entry, hdr, model, body, path, user, verified, resp, calls,
                 trace, write, upstream, limits, checkedAt, estimatedTokens, fn,
                 faults, record, profiles, quota,
                 logs, resHeaders, rpc, audit, proc>>

\* the request was admitted by checkUserLimits and its usage is not recorded
InFlight(x) ==
  \/ pc[x] \in {"estimateTokenUsage", "handler", "await_upstream", "service_returned"}
  \/ write[x] = "pending"

\* the limits query of the request was answered and is not yet decided
Pending(x) == pc[x] = "await_limits" /\ rpc[x] # NoRpc

\* what the store can do with the insert into api_usage
InsertOutcomes == {"ok", "error", "throw"}

\* SupabaseService.recordUsage / GeminiService.recordUsage: the insert of the
\* usage record has answered
UsageWriteReturn(r) ==
  /\ write[r] = "pending"
  /\ \E o \in InsertOutcomes :
       LET w == recordUsageSettle(o)
       IN /\ write' = [write EXCEPT ![r] = w]
          /\ IF w = "pending"
               THEN /\ calls' = [calls EXCEPT ![r].recordUsage = @ + 1]
                    /\ UNCHANGED trace
               ELSE /\ trace' = [trace EXCEPT ![r] = Ended(@, "recordUsage")]
                    /\ UNCHANGED calls
          /\ audit' = IF w = "recorded" /\ ~audit.reached /\ Recorded + 1 >= Headroom
                        THEN [reached |-> TRUE,
                              inFlight |-> {x \in Reqs \ {r} : InFlight(x)},
                              pending |-> {x \in Reqs : Pending(x)},
                              late |-> {}]
                        ELSE audit
  /\ UNCHANGED <<pc, stage, entry, hdr, model, body, path, user, verified, resp,
                 upstream, limits, checkedAt, estimatedTokens, fn, faults, relay, record, profiles, quota,
                 logs, resHeaders, rpc, proc>>

\* proxyToGoogle: the fetch (and response.json()) has settled
GrpcFetchReturn(r) ==
  /\ pc[r] = "await_fetch"
  /\ \E a \in ProviderAnswers :
       /\ upstream' = [upstream EXCEPT ![r] = a]
       /\ resp' = [resp EXCEPT ![r] =
             IF a.kind = "ok"
               THEN DataResp(GRPC_OK, [NoData EXCEPT !.kind = "grpc", !.answer = a])
               ELSE GrpcError("Google API request failed")]
  /\ logs' = [logs EXCEPT ![r] =
        @ \cup IF upstream'[r].kind = "ok" THEN {}
               ELSE {LogRecord("gRPC proxy error", "absent")}]
  /\ pc' = [pc EXCEPT ![r] = "done"]
  /\ trace' = [trace EXCEPT ![r] = Ended(Ended(@, "upstream"), "proxyToGoogle")]
  /\ UNCHANGED <<stage, entry, hdr, model, body, path, user, verified, calls, write,
                 limits, checkedAt, estimatedTokens, fn, faults, relay, record, profiles, quota,
                 resHeaders, rpc, audit, proc>>

(***************************************************************************)
(* errorHandler and the error classes of errorHandler.js                   *)
(***************************************************************************)
\* new AppError(message, statusCode) named name by the subclass: status is
\* the string 'fail' for a 4xx statusCode and 'error' otherwise; an error
\* object is its name, statusCode (0: none), status (a string; "401" stands
\* for the number 401, "none" for no property) and code
AppError(name, statusCode) ==
  [name |-> name, statusCode |-> statusCode,
   status |-> IF statusCode \div 100 = 4 THEN "fail" ELSE "error", code |-> "none"]

ValidationError == AppError("ValidationError", 400)
AuthenticationError == AppError("UnauthorizedError", 401)
AuthorizationError == AppError("ForbiddenError", 403)
NotFoundError == AppError("NotFoundError", 404)
RateLimitError == AppError("RateLimitError", 429)
ServiceUnavailableError == AppError("ServiceUnavailableError", 503)

\* the error classes errorHandler.js exports
CustomErrors == {ValidationError, AuthenticationError, AuthorizationError,
                 NotFoundError, RateLimitError, ServiceUnavailableError}

\* errors of other origin: a plain Error, system errors with a code, an
\* error of a library that sets a numeric status
PlainError == [name |-> "Error", statusCode |-> 0, status |-> "none", code |-> "none"]
ForeignErrors ==
  {PlainError}
    \cup {[PlainError EXCEPT !.code = c] : c \in NetworkCodes}
    \cup {[PlainError EXCEPT !.status = st] : st \in {"401", "403", "404", "429", "418"}}

HandledErrors == CustomErrors \cup ForeignErrors

\* errorHandler: the status and the error text of the response for err
errorHandler(err) ==
  IF err.name = "ValidationError" THEN [status |-> 400, error |-> "Validation Error"]
  ELSE IF err.name = "UnauthorizedError" \/ err.status = "401"
    THEN [status |-> 401, error |-> "Unauthorized"]
  ELSE IF err.name = "ForbiddenError" \/ err.status = "403"
    THEN [status |-> 403, error |-> "Forbidden"]
  ELSE IF err.name = "NotFoundError" \/ err.status = "404"
    THEN [status |-> 404, error |-> "Not Found"]
  ELSE IF err.name = "RateLimitError" \/ err.status = "429"
    THEN [status |-> 429, error |-> "Rate Limit Exceeded"]
  ELSE IF err.code \in {"ECONNREFUSED", "ENOTFOUND"}
    THEN [status |-> 503, error |-> "Service Unavailable"]
  ELSE IF err.code = "ETIMEDOUT" THEN [status |-> 504, error |-> "Gateway Timeout"]
  ELSE [status |-> 500, error |-> "Internal Server Error"]

(***************************************************************************)
(* The specification                                                       *)
(***************************************************************************)
Next ==
  \E r \in Solo :
    \/ Arrive(r)
    \/ AuthenticateUser(r)
    \/ GrpcAuthenticateCall(r)
    \/ VerifyTokenPrimary(r)
    \/ VerifyTokenAdmin(r)
    \/ GetUserProfileSelect(r)
    \/ GetUserProfileInsert(r)
    \/ validateModel(r)
    \/ validateRequest(r)
    \/ globalRateLimit(r)
    \/ checkUserLimits(r)
    \/ LimitsStoreAnswers(r)
    \/ checkUserLimitsReturn(r)
    \/ estimateTokenUsage(r)
    \/ Handler(r)
    \/ UsageReturn(r)
    \/ UpstreamReturn(r)
    \/ UpstreamTimeout(r)
    \/ HandlerRespond(r)
    \/ StreamEnd(r)
    \/ StreamError(r)
    \/ ClientDisconnect(r)
    \/ ProviderCloses(r)
    \/ UsageWriteReturn(r)
    \/ GrpcFetchReturn(r)

Spec == Init /\ [][Next]_vars

\* the event loop runs the continuation of a handler whose service call has
\* settled; nothing makes the store answer a usage write
FairSpec == Spec /\ \A r \in Solo : WF_vars(HandlerRespond(r))

\* in addition the timer of an upstream call that has a timeout fires;
\* nothing makes the provider answer, end a stream or close a connection
TimedSpec == FairSpec /\ \A r \in Solo : WF_vars(UpstreamTimeout(r))

\* in addition the upstream stream of a relayed answer comes to a close: it
\* ends or it fails
StreamSpec ==
  TimedSpec /\ \A r \in Solo : WF_vars(StreamEnd(r) \/ StreamError(r))

(***************************************************************************)
(* Two requests of the principal in their handlers at the same time: both  *)
(* came through the chain of the same recording route with the same model  *)
(***************************************************************************)
AllWithin == [hourly |-> TRUE, tokens |-> TRUE, cost |-> TRUE]

\* the trace of a request that went through the chain of e up to its handler
ChainTrace(e) ==
  [i \in 1..(2 * Len(Chain(e)) - 1) |->
     IF i % 2 = 1 THEN <<"start", Chain(e)[(i + 1) \div 2]>>
     ELSE <<"end", Chain(e)[i \div 2]>>]

PairInit ==
  \E e \in RecordingRoutes, m \in ModelIds \cap AllowedModels :
    /\ pc = [r \in Reqs |-> "handler"]
    /\ stage = [r \in Reqs |-> Len(Chain(e))]
    /\ entry = [r \in Reqs |-> e]
    /\ hdr = [r \in Reqs |-> GoodHeader]
    /\ model = [r \in Reqs |-> m]
    /\ body = [r \in Reqs |-> IF e = "generateContent" THEN TextBody ELSE NoBody]
    /\ path = [r \in Reqs |-> <<>>]
    /\ user = [r \in Reqs |-> TRUE]
    /\ verified = [r \in Reqs |-> TRUE]
    /\ resp = [r \in Reqs |-> NoResp]
    /\ calls = [r \in Reqs |->
          [NoCalls EXCEPT !.verifyToken = 1, !.getUser = 1, !.getUserProfile = 1,
                          !.checkUserLimits = IF e = "generateContent" THEN 1 ELSE 0]]
    /\ trace = [r \in Reqs |-> ChainTrace(e)]
    /\ write = [r \in Reqs |-> "none"]
    /\ upstream = [r \in Reqs |-> NoAnswer]
    /\ limits = [r \in Reqs |->
          IF e = "generateContent" THEN [NoLimits EXCEPT !.state = "read"] ELSE NoLimits]
    /\ checkedAt = [r \in Reqs |-> -1]
    /\ estimatedTokens = [r \in Reqs |->
          IF e = "generateContent" THEN EstimateOf(TextBody) ELSE NoEstimate]
    /\ record = [r \in Reqs |-> NoRecord]
    /\ profiles = <<TRUE>>
    /\ quota = AllWithin
    /\ fn = NoFn
    /\ faults = [r \in Reqs |-> {}]
    /\ relay = [r \in Reqs |-> NoRelay]
    /\ logs = [r \in Reqs |-> {}]
    /\ rpc = [r \in Reqs |-> NoRpc]
    /\ audit = NoAudit
    /\ proc = Running
    /\ resHeaders = [r \in Reqs |-> {"X-Request-ID"}]

PairNext ==
  \E r \in Reqs :
    \/ Handler(r)
    \/ UpstreamReturn(r)
    \/ HandlerRespond(r)
    \/ UsageWriteReturn(r)

PairSpec == PairInit /\ [][PairNext]_vars

(***************************************************************************)
(* Shutdown of the process that runs both servers, with an HTTP request in *)
(* its handler and a gRPC call waiting for the provider when the signal    *)
(* arrives                                                                 *)
(***************************************************************************)
\* the requests the HTTP server, the calls the gRPC server is working on
HttpInFlight == {r \in Reqs : entry[r] # "grpc" /\ pc[r] \notin {"idle", "done"}}
GrpcInFlight == {r \in Reqs : entry[r] = "grpc" /\ pc[r] \notin {"idle", "done"}}

\* SIGTERM or SIGINT: shutdown() up to its await. server.close(cb) stops the
\* HTTP server taking connections and returns at once; grpcProxy.stop()
\* calls tryShutdown and returns the promise shutdown() waits for
Signal ==
  /\ proc = Running
  /\ proc' = [proc EXCEPT !.http = "closing", !.grpc = "shutting"]
  /\ UNCHANGED <<pc, stage, entry, hdr, model, body, path, user, verified, resp, calls,
                 trace, write, upstream, limits, checkedAt, estimatedTokens, fn, record,
                 profiles, quota, faults, relay, logs, resHeaders, rpc, audit>>

\* the callback of server.close runs once the HTTP server has no request
\* left: it logs 'HTTP server closed'
HttpClosed ==
  /\ ~proc.exited
  /\ proc.http = "closing"
  /\ HttpInFlight = {}
  /\ proc' = [proc EXCEPT !.http = "closed"]
  /\ UNCHANGED <<pc, stage, entry, hdr, model, body, path, user, verified, resp, calls,
                 trace, write, upstream, limits, checkedAt, estimatedTokens, fn, record,
                 profiles, quota, faults, relay, logs, resHeaders, rpc, audit>>

\* the callback of tryShutdown runs once the gRPC server has no call left:
\* it resolves the promise of stop(), and shutdown() goes on to
\* process.exit(0)
GrpcStopped ==
  /\ ~proc.exited
  /\ proc.grpc = "shutting"
  /\ GrpcInFlight = {}
  /\ proc' = [proc EXCEPT !.grpc = "down", !.exited = TRUE]
  /\ UNCHANGED <<pc, stage, entry, hdr, model, body, path, user, verified, resp, calls,
                 trace, write, upstream, limits, checkedAt, estimatedTokens, fn, record,
                 profiles, quota, faults, relay, logs, resHeaders, rpc, audit>>

\* a gRPC path that proxyToGoogle forwards
ForwardedPath == <<"/svc/", "Generate", "Content">>

ShutdownInit ==
  LET e == [r \in Reqs |-> IF r = 1 THEN "generateContent" ELSE "grpc"]
      http == [r \in Reqs |-> e[r] # "grpc"]
  IN
    /\ pc = [r \in Reqs |-> IF http[r] THEN "handler" ELSE "await_fetch"]
    /\ stage = [r \in Reqs |-> Len(Chain(e[r]))]
    /\ entry = e
    /\ hdr = [r \in Reqs |-> GoodHeader]
    /\ model = [r \in Reqs |-> IF http[r] THEN "gemini-1.5-flash" ELSE "?"]
    /\ body = [r \in Reqs |-> IF http[r] THEN TextBody ELSE NoBody]
    /\ path = [r \in Reqs |-> IF http[r] THEN <<>> ELSE ForwardedPath]
    /\ user = [r \in Reqs |-> TRUE]
    /\ verified = [r \in Reqs |-> TRUE]
    /\ resp = [r \in Reqs |-> NoResp]
    /\ calls = [r \in Reqs |->
          IF http[r]
            THEN [NoCalls EXCEPT !.verifyToken = 1, !.getUser = 1, !.getUserProfile = 1,
                                 !.checkUserLimits = 1]
            ELSE [NoCalls EXCEPT !.verifyToken = 1, !.getUser = 1, !.upstream = 1]]
    /\ trace = [r \in Reqs |->
          IF http[r] THEN ChainTrace(e[r])
          ELSE Started(Started(<<>>, "proxyToGoogle"), "upstream")]
    /\ write = [r \in Reqs |-> "none"]
    /\ upstream = [r \in Reqs |-> NoAnswer]
    /\ limits = [r \in Reqs |->
          IF http[r] THEN [NoLimits EXCEPT !.state = "read"] ELSE NoLimits]
    /\ checkedAt = [r \in Reqs |-> -1]
    /\ estimatedTokens = [r \in Reqs |->
          IF http[r] THEN EstimateOf(TextBody) ELSE NoEstimate]
    /\ record = [r \in Reqs |-> NoRecord]
    /\ profiles = <<TRUE>>
    /\ quota = AllWithin
    /\ fn = NoFn
    /\ faults = [r \in Reqs |-> {}]
    /\ relay = [r \in Reqs |-> NoRelay]
    /\ logs = [r \in Reqs |-> {}]
    /\ rpc = [r \in Reqs |-> NoRpc]
    /\ audit = NoAudit
    /\ resHeaders = [r \in Reqs |-> AppHeaders(e[r])]
    /\ proc = Running

\* nothing runs in a process that has exited
ShutdownNext ==
  \/ Signal
  \/ HttpClosed
  \/ GrpcStopped
  \/ /\ ~proc.exited
     /\ \E r \in Reqs :
          \/ Handler(r)
          \/ UpstreamReturn(r)
          \/ HandlerRespond(r)
          \/ UsageWriteReturn(r)
          \/ GrpcFetchReturn(r)

\* a request that is under way gets its answer, and the callbacks of the
\* two servers run when they are due
ShutdownSpec ==
  /\ ShutdownInit
  /\ [][ShutdownNext]_vars
  /\ WF_vars(HttpClosed)
  /\ WF_vars(GrpcStopped)

(***************************************************************************)
(* Two requests of one principal, one request under the hourly ceiling,    *)
(* in checkUserLimits of generateContent at the same time                  *)
(***************************************************************************)
QuotaInit ==
  LET e == "generateContent"
  IN
    /\ pc = [r \in Reqs |-> "checkUserLimits"]
    /\ stage = [r \in Reqs |-> 4]
    /\ entry = [r \in Reqs |-> e]
    /\ hdr = [r \in Reqs |-> GoodHeader]
    /\ model = [r \in Reqs |-> "gemini-1.5-flash"]
    /\ body = [r \in Reqs |-> TextBody]
    /\ path = [r \in Reqs |-> <<>>]
    /\ user = [r \in Reqs |-> TRUE]
    /\ verified = [r \in Reqs |-> TRUE]
    /\ resp = [r \in Reqs |-> NoResp]
    /\ calls = [r \in Reqs |->
          [NoCalls EXCEPT !.verifyToken = 1, !.getUser = 1, !.getUserProfile = 1]]
    /\ trace = [r \in Reqs |-> SubSeq(ChainTrace(e), 1, 7)]
    /\ write = [r \in Reqs |-> "none"]
    /\ upstream = [r \in Reqs |-> NoAnswer]
    /\ limits = [r \in Reqs |-> NoLimits]
    /\ checkedAt = [r \in Reqs |-> -1]
    /\ estimatedTokens = [r \in Reqs |-> NoEstimate]
    /\ record = [r \in Reqs |-> NoRecord]
    /\ profiles = <<TRUE>>
    /\ quota = AllWithin
    /\ fn = NoFn
    /\ faults = [r \in Reqs |-> {}]
    /\ relay = [r \in Reqs |-> NoRelay]
    /\ logs = [r \in Reqs |-> {}]
    /\ rpc = [r \in Reqs |-> NoRpc]
    /\ audit = NoAudit
    /\ proc = Running
    /\ resHeaders = [r \in Reqs |-> {"X-Request-ID"}]

QuotaNext ==
  \E r \in Reqs :
    \/ checkUserLimits(r)
    \/ LimitsStoreAnswers(r)
    \/ checkUserLimitsReturn(r)
    \/ estimateTokenUsage(r)
    \/ Handler(r)
    \/ UpstreamReturn(r)
    \/ HandlerRespond(r)
    \/ UsageWriteReturn(r)

QuotaSpec == QuotaInit /\ [][QuotaNext]_vars

(***************************************************************************)
(* Two requests of one principal in authenticateUser at the same time, the *)
(* principal having no profile row yet                                     *)
(***************************************************************************)
ProfileInit ==
  \E e \in Guarded :
    /\ pc = [r \in Reqs |-> "authenticateUser"]
    /\ stage = [r \in Reqs |-> 1]
    /\ entry = [r \in Reqs |-> e]
    /\ hdr = [r \in Reqs |-> GoodHeader]
    /\ model = [r \in Reqs |-> "?"]
    /\ body = [r \in Reqs |-> NoBody]
    /\ path = [r \in Reqs |-> <<>>]
    /\ user = [r \in Reqs |-> FALSE]
    /\ verified = [r \in Reqs |-> FALSE]
    /\ resp = [r \in Reqs |-> NoResp]
    /\ calls = [r \in Reqs |-> NoCalls]
    /\ trace = [r \in Reqs |-> <<<<"start", "authenticateUser">>>>]
    /\ write = [r \in Reqs |-> "none"]
    /\ upstream = [r \in Reqs |-> NoAnswer]
    /\ limits = [r \in Reqs |-> NoLimits]
    /\ checkedAt = [r \in Reqs |-> -1]
    /\ estimatedTokens = [r \in Reqs |-> NoEstimate]
    /\ record = [r \in Reqs |-> NoRecord]
    /\ profiles = <<>>
    /\ quota = AllWithin
    /\ fn = NoFn
    /\ faults = [r \in Reqs |-> {}]
    /\ relay = [r \in Reqs |-> NoRelay]
    /\ logs = [r \in Reqs |-> {}]
    /\ rpc = [r \in Reqs |-> NoRpc]
    /\ audit = NoAudit
    /\ proc = Running
    /\ resHeaders = [r \in Reqs |-> {"X-Request-ID"}]

ProfileNext ==
  \E r \in Reqs :
    \/ AuthenticateUser(r)
    \/ VerifyTokenPrimary(r)
    \/ VerifyTokenAdmin(r)
    \/ GetUserProfileSelect(r)
    \/ GetUserProfileInsert(r)

ProfileSpec == ProfileInit /\ [][ProfileNext]_vars

(***************************************************************************)
(* Functions applied on their own: the argument is drawn in the initial    *)
(* state, the action applies the function to it                            *)
(***************************************************************************)
FnInit ==
  /\ pc = [r \in Reqs |-> "idle"]
  /\ stage = [r \in Reqs |-> 0]
  /\ entry = [r \in Reqs |-> "none"]
  /\ hdr = [r \in Reqs |-> NoHeader]
  /\ model = [r \in Reqs |-> "?"]
  /\ body = [r \in Reqs |-> NoBody]
  /\ path = [r \in Reqs |-> <<>>]
  /\ user = [r \in Reqs |-> FALSE]
  /\ verified = [r \in Reqs |-> FALSE]
  /\ resp = [r \in Reqs |-> NoResp]
  /\ calls = [r \in Reqs |-> NoCalls]
  /\ trace = [r \in Reqs |-> <<>>]
  /\ write = [r \in Reqs |-> "none"]
  /\ upstream = [r \in Reqs |-> NoAnswer]
  /\ limits = [r \in Reqs |-> NoLimits]
  /\ checkedAt = [r \in Reqs |-> -1]
  /\ estimatedTokens = [r \in Reqs |-> NoEstimate]
  /\ record = [r \in Reqs |-> NoRecord]
  /\ profiles = <<TRUE>>
  /\ quota = AllWithin
  /\ faults = [r \in Reqs |-> {}]
  /\ relay = [r \in Reqs |-> NoRelay]
  /\ logs = [r \in Reqs |-> {}]
  /\ rpc = [r \in Reqs |-> NoRpc]
  /\ audit = NoAudit
  /\ proc = Running
  /\ resHeaders = [r \in Reqs |-> {}]
  /\ \/ \E o \in RpcOutcomes, row \in Snapshots, now \in Times :
          fn = [name |-> "checkUserLimits", done |-> FALSE,
                arg |-> [rpc |-> o, row |-> row, now |-> now], out |-> NoResp]
     \/ \E i \in TokenCounts, o \in TokenCounts, m \in CostModels :
          fn = [name |-> "calculateCost", done |-> FALSE,
                arg |-> [input |-> i, output |-> o, model |-> m], out |-> NoCost]
     \/ \E p \in Payloads :
          fn = [name |-> "estimateTokenUsage", done |-> FALSE, arg |-> p,
                out |-> [input |-> -1, total |-> -1, nextCalls |-> 0, sent |-> FALSE]]
     \/ \E a \in Responses :
          fn = [name |-> "extractTokenUsage", done |-> FALSE, arg |-> a,
                out |-> ZeroUsage]
     \/ \E x \in TokenCounts, m \in CostModels :
          fn = [name |-> "calculateCostDoubling", done |-> FALSE,
                arg |-> [x |-> x, model |-> m],
                out |-> [once |-> NoCost, twice |-> NoCost, zero |-> NoCost]]
     \/ \E e \in TransparentRoutes, u \in OriginalUrls, h \in InboundHeaders,
           m \in Methods :
          fn = [name |-> "proxyRequest", done |-> FALSE,
                arg |-> [route |-> e, originalUrl |-> u, headers |-> h, method |-> m],
                out |-> [url |-> <<>>, headers |-> {}, body |-> FALSE]]
     \/ \E err \in HandledErrors :
          fn = [name |-> "errorHandler", done |-> FALSE, arg |-> err,
                out |-> [status |-> 0, error |-> "none"]]

\* checkUserLimits applied to what the limits store answered
ApplyCheckUserLimits ==
  /\ fn.name = "checkUserLimits"
  /\ ~fn.done
  /\ fn' = [fn EXCEPT !.done = TRUE,
                      !.out = checkUserLimitsVerdict(
                                supabaseCheckUserLimits(fn.arg.rpc, fn.arg.row),
                                fn.arg.now)]
  /\ UNCHANGED <<pc, stage, entry, hdr, model, body, path, user, verified, resp,
                 calls, trace, write, upstream, limits, checkedAt, estimatedTokens,
                 record, profiles, quota, faults, relay,
                 logs, resHeaders, rpc, audit, proc>>

\* calculateCost applied to token counts and a model id
ApplyCalculateCost ==
  /\ fn.name = "calculateCost"
  /\ ~fn.done
  /\ fn' = [fn EXCEPT !.done = TRUE,
                      !.out = calculateCost(fn.arg.input, fn.arg.output, fn.arg.model)]
  /\ UNCHANGED <<pc, stage, entry, hdr, model, body, path, user, verified, resp,
                 calls, trace, write, upstream, limits, checkedAt, estimatedTokens,
                 record, profiles, quota, faults, relay,
                 logs, resHeaders, rpc, audit, proc>>

\* calculateCost applied to x, to 2x and to 0 input tokens of one model
ApplyCalculateCostDoubling ==
  /\ fn.name = "calculateCostDoubling"
  /\ ~fn.done
  /\ fn' = [fn EXCEPT !.done = TRUE,
                      !.out = [once |-> calculateCost(fn.arg.x, 0, fn.arg.model),
                               twice |-> calculateCost(2 * fn.arg.x, 0, fn.arg.model),
                               zero |-> calculateCost(0, 0, fn.arg.model)]]
  /\ UNCHANGED <<pc, stage, entry, hdr, model, body, path, user, verified, resp,
                 calls, trace, write, upstream, limits, checkedAt, estimatedTokens,
                 record, profiles, quota, faults, relay,
                 logs, resHeaders, rpc, audit, proc>>

\* the transparent proxy route builds the request it hands to fetch
ApplyProxyRequest ==
  /\ fn.name = "proxyRequest"
  /\ ~fn.done
  /\ fn' = [fn EXCEPT !.done = TRUE,
                      !.out = [url |-> googleUrl(fn.arg.route, fn.arg.originalUrl),
                               headers |-> SentHeaders(
                                  FetchHeaders(fn.arg.route, fn.arg.headers)),
                               body |-> SendsBody(fn.arg.method)]]
  /\ UNCHANGED <<pc, stage, entry, hdr, model, body, path, user, verified, resp,
                 calls, trace, write, upstream, limits, checkedAt, estimatedTokens,
                 record, profiles, quota, faults, relay,
                 logs, resHeaders, rpc, audit, proc>>

\* errorHandler applied to an error
ApplyErrorHandler ==
  /\ fn.name = "errorHandler"
  /\ ~fn.done
  /\ fn' = [fn EXCEPT !.done = TRUE, !.out = errorHandler(fn.arg)]
  /\ UNCHANGED <<pc, stage, entry, hdr, model, body, path, user, verified, resp,
                 calls, trace, write, upstream, limits, checkedAt, estimatedTokens,
                 record, profiles, quota, faults, relay,
                 logs, resHeaders, rpc, audit, proc>>

\* estimateTokenUsage applied to a payload
ApplyEstimateTokenUsage ==
  /\ fn.name = "estimateTokenUsage"
  /\ ~fn.done
  /\ fn' = [fn EXCEPT !.done = TRUE, !.out = estimateTokenUsageRun(fn.arg)]
  /\ UNCHANGED <<pc, stage, entry, hdr, model, body, path, user, verified, resp,
                 calls, trace, write, upstream, limits, checkedAt, estimatedTokens,
                 record, profiles, quota, faults, relay,
                 logs, resHeaders, rpc, audit, proc>>

\* extractTokenUsage applied to a provider response
ApplyExtractTokenUsage ==
  /\ fn.name = "extractTokenUsage"
  /\ ~fn.done
  /\ fn' = [fn EXCEPT !.done = TRUE, !.out = extractTokenUsageRun(fn.arg)]
  /\ UNCHANGED <<pc, stage, entry, hdr, model, body, path, user, verified, resp,
                 calls, trace, write, upstream, limits, checkedAt, estimatedTokens,
                 record, profiles, quota, faults, relay,
                 logs, resHeaders, rpc, audit, proc>>

FnNext ==
  \/ ApplyCheckUserLimits
  \/ ApplyExtractTokenUsage
  \/ ApplyEstimateTokenUsage
  \/ ApplyCalculateCost
  \/ ApplyCalculateCostDoubling
  \/ ApplyProxyRequest
  \/ ApplyErrorHandler

FnSpec == FnInit /\ [][FnNext]_vars

(***************************************************************************)
(* Properties                                                              *)
(***************************************************************************)
\* the response of request r has been sent
Responded(r) == resp[r] # NoResp

\* C1: a request with a verified token of an inactive account is answered
\* AccountInactive (403) on every entry point but the health check, and no
\* upstream call is made for it (a request whose profile could not be loaded
\* at all is left aside)
C1_InactiveRejected ==
  \A r \in Reqs :
    (verified[r] /\ profiles = <<FALSE>> /\ entry[r] # "health")
      => /\ calls[r].upstream = 0
         /\ (pc[r] = "done" /\ resp[r] # AuthServiceError)
              => (resp[r].status = 403 /\ resp[r].error = "Account inactive")

\* the part of C1 that the HTTP routes satisfy
C1_HttpInactiveRejected ==
  \A r \in Reqs :
    (verified[r] /\ profiles = <<FALSE>> /\ entry[r] \in Guarded)
      => /\ calls[r].upstream = 0
         /\ (pc[r] = "done" /\ resp[r] # AuthServiceError)
              => (resp[r].status = 403 /\ resp[r].error = "Account inactive")

\* the header values that are absent or lack the exact prefix 'Bearer '
MalformedHeaders == {NoHeader, LowerHeader, NoSpaceHeader, BasicHeader}

\* C2: on a route guarded by authenticateUser a request whose Authorization
\* header is absent or does not start with 'Bearer ' is answered 401, and no
\* call to verifyToken, getUserProfile, checkUserLimits, recordUsage or the
\* provider is made for it
C2_MalformedHeader401 ==
  \A r \in Reqs :
    (entry[r] \in Guarded /\ hdr[r] \in MalformedHeaders)
      => /\ calls[r] = NoCalls
         /\ pc[r] \in {"authenticateUser", "done"}
         /\ pc[r] = "done" => resp[r] = ErrorResp(401, "Authentication required")

C2_Witness ==
  \E r \in Reqs :
    /\ entry[r] = "generateContent"
    /\ hdr[r] = LowerHeader
    /\ pc[r] = "done"
    /\ resp[r].status = 401

\* the number of times the event ev occurs in the trace t
Occurrences(t, ev) == Cardinality({i \in 1..Len(t) : t[i] = ev})

\* the errors checkUserLimits answers with
LimitErrors == {"Rate limit exceeded", "Token limit exceeded", "Cost limit exceeded"}

\* the errors of the stages that run before checkUserLimits
EarlierErrors ==
  {"Authentication required", "Invalid or expired token", "Account inactive",
   "Authentication service error", "Invalid model", "Validation error",
   "Invalid model for embeddings"}

\* C3: on every billable route (generateContent, streamGenerateContent,
\* countTokens, embeddings) a request of a principal with an unsatisfied
\* ceiling (the limits query having answered) makes no upstream call and no
\* usage record, and, unless an earlier stage rejected it, is answered 429
\* with a reset time strictly later than the time of the check
C3_OverQuotaRejected ==
  \A r \in Reqs :
    (entry[r] \in ModelRoutes /\ quota # AllWithin /\ limits[r].state # "failed")
      => /\ calls[r].upstream = 0
         /\ calls[r].recordUsage = 0
         /\ (pc[r] = "done" /\ resp[r].error \notin EarlierErrors)
              => /\ resp[r].status = 429
                 /\ resp[r].error \in LimitErrors
                 /\ resp[r].details.reset_time > checkedAt[r]

\* the part of C3 that the routes with checkUserLimits in their chain satisfy
C3_CheckedRoutesRejected ==
  \A r \in Reqs :
    (/\ entry[r] \in {"generateContent", "streamGenerateContent"}
     /\ quota # AllWithin /\ limits[r].state # "failed")
      => /\ calls[r].upstream = 0
         /\ calls[r].recordUsage = 0
         /\ (pc[r] = "done" /\ resp[r].error \notin EarlierErrors)
              => /\ resp[r].status = 429
                 /\ resp[r].error \in LimitErrors
                 /\ resp[r].details.reset_time > checkedAt[r]

\* C4: when the limits query fails, checkUserLimits sends no response and
\* calls next exactly once (the next middleware, estimateTokenUsage, starts
\* exactly once), and the request goes on to the upstream call
C4_FailOpen ==
  \A r \in Reqs :
    limits[r].state = "failed"
      => /\ resp[r].error \notin LimitErrors
         /\ Occurrences(trace[r], <<"start", "estimateTokenUsage">>) = 1
         /\ Occurrences(trace[r], <<"end", "checkUserLimits">>) = 1
         /\ pc[r] = "done" => calls[r].upstream = 1

C4_Witness ==
  \E r \in Reqs :
    /\ limits[r].state = "failed"
    /\ quota # AllWithin
    /\ pc[r] = "done"
    /\ calls[r].upstream = 1

\* the stages of the request pipeline, in the order of the pipeline
PipelineStages ==
  <<"authenticateUser", "validateModel", "validateRequest", "checkUserLimits",
    "estimateTokenUsage", "upstream", "extract", "recordUsage">>

Rank(s) == CHOOSE i \in 1..Len(PipelineStages) : PipelineStages[i] = s

IsPipelineEvent(ev) == \E i \in 1..Len(PipelineStages) : PipelineStages[i] = ev[2]

\* the errors a stage of the pipeline rejects a request with
RejectErrors == (EarlierErrors \ {"Authentication service error"}) \cup LimitErrors

\* C5: on the model routes the stages run in the order authenticateUser,
\* validateModel, validateRequest, checkUserLimits, estimateTokenUsage,
\* upstream call, extraction and cost, recordUsage: a stage starts once, after
\* the stages before it have ended, and never after a later one has started;
\* once a stage has rejected the request (401, 403, 400, 429) nothing later
\* runs: no upstream call, no usage record
C5_StagesInOrder ==
  \A r \in Reqs :
    entry[r] \in ModelRoutes =>
      LET t == SelectSeq(trace[r], IsPipelineEvent)
      IN /\ \A i, j \in 1..Len(t) : i < j => Rank(t[i][2]) <= Rank(t[j][2])
         /\ \A i \in 2..Len(t) : t[i][1] = "start" => t[i - 1][1] = "end"
         /\ \A i \in 1..Len(PipelineStages) :
              Occurrences(t, <<"start", PipelineStages[i]>>) <= 1
         /\ resp[r].error \in RejectErrors
              => /\ resp[r].status \in {400, 401, 403, 429}
                 /\ calls[r].upstream = 0
                 /\ calls[r].recordUsage = 0
                 /\ write[r] = "none"
                 /\ trace[r][Len(trace[r])][1] = "end"

C5_Witness ==
  \E r \in Reqs :
    /\ entry[r] = "generateContent"
    /\ pc[r] = "done"
    /\ resp[r].status = 200
    /\ \A i \in 1..Len(PipelineStages) :
         Occurrences(trace[r], <<"start", PipelineStages[i]>>) = 1

\* C6: a request on generateContent, streamGenerateContent, countTokens or
\* embeddings whose upstream call got an answer of the provider (2xx or a
\* provider error) has had a usage write attempted for it by the time it ends
C6_UsageAttempted ==
  \A r \in Reqs :
    (/\ entry[r] \in ModelRoutes
     /\ upstream[r].kind \in {"ok", "error"}
     /\ pc[r] = "done")
      => calls[r].recordUsage >= 1

\* the part of C6 that holds: a 2xx answer on generateContent or embeddings
C6_RecordedOn2xx ==
  \A r \in Reqs :
    (entry[r] \in RecordingRoutes /\ upstream[r].kind = "ok")
      => calls[r].recordUsage >= 1

\* C7: two generateContent (or two embeddings) requests with the same model,
\* body and provider answer get the same status and body whatever became of
\* their usage writes
C7_WriteOutcomeInvisible ==
  \A r1, r2 \in Reqs :
    (/\ pc[r1] = "done" /\ pc[r2] = "done"
     /\ entry[r1] = entry[r2] /\ model[r1] = model[r2]
     /\ body[r1] = body[r2] /\ upstream[r1] = upstream[r2])
      => resp[r1] = resp[r2]

C7_Witness ==
  /\ pc[1] = "done" /\ pc[2] = "done"
  /\ body[1] = body[2] /\ upstream[1] = upstream[2]
  /\ write[1] = "failed" /\ write[2] = "recorded"
  /\ resp[1].status = 200
  /\ \E i, j \in 1..Len(trace[1]) :
       /\ i < j
       /\ trace[1][i] = <<"end", "recordUsage">>
       /\ trace[1][j] = <<"end", "handler">>

\* C8: in generateContent and generateEmbeddings the usage write is started
\* and not awaited: once the service method has its provider answer the
\* response is sent, even if the write never completes
C8_ResponseNotHeldByWrite ==
  \A r \in Reqs :
    (pc[r] = "service_returned" /\ write[r] = "pending") ~> Responded(r)

C8_Witness ==
  \E r \in Reqs :
    /\ entry[r] \in RecordingRoutes
    /\ pc[r] = "done"
    /\ resp[r].status = 200
    /\ write[r] = "pending"

\* C9: the usage write of the store is invoked at most once per request, and
\* a failed write is not issued again
C9_WriteAtMostOnce ==
  \A r \in Reqs :
    /\ calls[r].recordUsage <= 1
    /\ write[r] \in {"pending", "recorded", "failed"} => calls[r].recordUsage = 1
    /\ Occurrences(trace[r], <<"start", "recordUsage">>) = calls[r].recordUsage

C9_Witness ==
  \E r \in Reqs :
    /\ write[r] = "failed"
    /\ pc[r] = "done"
    /\ calls[r].recordUsage = 1

\* the snapshot checkUserLimits works on for the argument of the harness
SnapshotSeen == IF fn.arg.rpc = "row" THEN fn.arg.row ELSE DefaultSnapshot

\* C10: checkUserLimits looks at the hourly ceiling, then the daily tokens,
\* then the daily cost, and reports only the first one violated, with the
\* counter of that dimension and a reset time of now + 1 hour (hourly) or
\* now + 24 hours (daily)
C10_FirstViolatedReported ==
  (fn.name = "checkUserLimits" /\ fn.done /\ fn.arg.rpc \in {"row", "empty"}) =>
    LET s == SnapshotSeen
        now == fn.arg.now
    IN IF ~s.within_hourly_limit
         THEN fn.out = LimitResp("Rate limit exceeded", "requests_last_hour",
                        s.requests_last_hour, now + 3600000)
       ELSE IF ~s.within_daily_token_limit
         THEN fn.out = LimitResp("Token limit exceeded", "tokens_today",
                        s.tokens_today, now + 86400000)
       ELSE IF ~s.within_daily_cost_limit
         THEN fn.out = LimitResp("Cost limit exceeded", "cost_today",
                        s.cost_today, now + 86400000)
       ELSE fn.out = NoResp

C10_Witness ==
  /\ fn.name = "checkUserLimits"
  /\ fn.done
  /\ fn.arg.rpc = "row"
  /\ ~fn.arg.row.within_hourly_limit
  /\ ~fn.arg.row.within_daily_token_limit
  /\ ~fn.arg.row.within_daily_cost_limit
  /\ fn.out.error = "Rate limit exceeded"
  /\ fn.out.details.reset_time = fn.arg.now + 3600000

\* C11: when the identity provider's verification call fails for a transient
\* reason (the call raises) authenticateUser answers with the 5xx
\* AuthServiceError response, not with a 401, and does not let the request
\* through
C11_TransientIdpIs5xx ==
  \A r \in Reqs :
    (entry[r] \in Guarded /\ "idp" \in faults[r])
      => /\ ~user[r]
         /\ pc[r] \in {"await_getUser", "await_admin_getUser", "done"}
         /\ pc[r] = "done" => (resp[r] = AuthServiceError /\ resp[r].status >= 500)

\* the part of C11 that holds: such a request is never let through
C11_TransientIdpBlocked ==
  \A r \in Reqs :
    (entry[r] \in Guarded /\ "idp" \in faults[r])
      => /\ ~user[r]
         /\ pc[r] = "done" => resp[r] = ErrorResp(401, "Invalid or expired token")

\* C12: authentication makes at most one token-verification call to the
\* identity provider for a request, whatever the call answers
C12_OneVerificationCall ==
  \A r \in Reqs : calls[r].getUser <= 1

\* what holds instead: one verifyToken, at most two calls to the provider
C12_AtMostTwoCalls ==
  \A r \in Reqs : calls[r].verifyToken <= 1 /\ calls[r].getUser <= 2

\* the request has left getUserProfile (and authenticateUser)
PastProfile(r) ==
  pc[r] \notin {"authenticateUser", "await_getUser", "await_admin_getUser",
                "await_profile_select", "await_profile_insert"}

\* the request went into getUserProfile
CalledGetUserProfile(r) == calls[r].getUserProfile = 1

\* C13: when the requests of a principal without a profile run
\* getUserProfile concurrently (no store failure occurring), exactly one
\* profile row, free tier and active, exists afterwards and every request
\* obtained the profile: none failed because of the concurrent creation
C13_ConcurrentFirstUse ==
  (\A r \in Reqs : CalledGetUserProfile(r) /\ PastProfile(r) /\ faults[r] = {})
    => /\ profiles = <<TRUE>>
       /\ \A r \in Reqs : user[r] /\ resp[r] = NoResp

\* what holds for a request that runs getUserProfile alone
C13_FirstUseAlone ==
  (/\ CalledGetUserProfile(1) /\ PastProfile(1) /\ faults[1] = {}
   /\ calls[2].getUserProfile = 0)
    => /\ profiles = <<TRUE>>
       /\ user[1] /\ resp[1] = NoResp

\* C14: for every model id m (entries of the pricing table and unlisted ids)
\* and every x >= 0, calculateCost(2x, 0, m) = 2 * calculateCost(x, 0, m) and
\* calculateCost(0, 0, m) = 0
C14_CostLinear ==
  (fn.name = "calculateCostDoubling" /\ fn.done)
    => /\ JsEquals(fn.out.twice, Twice(fn.out.once))
       /\ JsEquals(fn.out.zero, Num(0))

\* the part of C14 that holds: every model id whose output rate is not 0
C14_CostLinearNonZeroRate ==
  (fn.name = "calculateCostDoubling" /\ fn.done /\ fn.arg.model # "gemini-embedding-001")
    => /\ JsEquals(fn.out.twice, Twice(fn.out.once))
       /\ JsEquals(fn.out.zero, Num(0))

\* C15: for every model id and all non-negative token counts calculateCost
\* returns a defined, finite value >= 0, and for a model id that is not in
\* the pricing table the value computed with the 'gemini-pro' entry
\* ($0.50 and $1.50 per million tokens)
C15_CostFinite ==
  (fn.name = "calculateCost" /\ fn.done)
    => /\ FiniteNonNegative(fn.out)
       /\ fn.arg.model \notin PricedModels
            => fn.out = Num(fn.arg.input * 5000 + fn.arg.output * 15000)

\* the part of C15 that holds: every model id whose output rate is not 0
C15_CostFiniteNonZeroRate ==
  (fn.name = "calculateCost" /\ fn.done /\ fn.arg.model # "gemini-embedding-001")
    => /\ FiniteNonNegative(fn.out)
       /\ fn.arg.model \notin PricedModels
            => fn.out = Num(fn.arg.input * 5000 + fn.arg.output * 15000)

RECURSIVE AllParts(_)
\* the parts of all the contents of a contents array, in order
AllParts(cs) ==
  IF cs = <<>> THEN <<>>
  ELSE (IF Head(cs).parts = "array" THEN Head(cs).items ELSE <<>>) \o AllParts(Tail(cs))

RECURSIVE TextTokens(_)
\* the sum of ceil(length / 4) over the textual parts of ps
TextTokens(ps) ==
  IF ps = <<>> THEN 0
  ELSE (IF Head(ps).text > 0 THEN (Head(ps).text + 3) \div 4 ELSE 0) + TextTokens(Tail(ps))

\* the number of inline-data parts of ps
InlineParts(ps) == Cardinality({i \in DOMAIN ps : ps[i].inlineData})

\* a null content or a null part is in the contents array, or there is no body
Malformed(p) ==
  \/ ~p.present
  \/ \E i \in DOMAIN p.items :
       \/ ~p.items[i].isObject
       \/ \E j \in DOMAIN p.items[i].items : ~p.items[i].items[j].isObject

\* C16: for a payload with a contents array (of contents and parts that are
\* objects) estimateTokenUsage sets the input estimate to the sum of
\* ceil(length / 4) over the textual parts, plus 1000 for each inline-data
\* part, plus 100, and the total estimate to twice the input estimate; one
\* textual part of length L alone gives ceil(L / 4) + 100
C16_EstimateFormula ==
  (/\ fn.name = "estimateTokenUsage" /\ fn.done
   /\ fn.arg.contents = "array" /\ ~Malformed(fn.arg))
    => /\ fn.out.input = TextTokens(AllParts(fn.arg.items))
                         + 1000 * InlineParts(AllParts(fn.arg.items)) + 100
       /\ fn.out.total = 2 * fn.out.input
       /\ \A L \in 1..MaxText :
            fn.arg.items = <<[isObject |-> TRUE, parts |-> "array",
                              items |-> <<[isObject |-> TRUE, text |-> L,
                                           inlineData |-> FALSE]>>]>>
              => (fn.out.input = (L + 3) \div 4 + 100
                  /\ fn.out.total = 2 * ((L + 3) \div 4 + 100))

C16_Witness ==
  /\ fn.name = "estimateTokenUsage" /\ fn.done
  /\ fn.arg.contents = "array" /\ ~Malformed(fn.arg)
  /\ Len(fn.arg.items) = 2
  /\ InlineParts(AllParts(fn.arg.items)) = 2
  /\ TextTokens(AllParts(fn.arg.items)) = (MaxText + 3) \div 4 + (MaxText + 2) \div 4
  /\ fn.out.input = 2100 + (MaxText + 3) \div 4 + (MaxText + 2) \div 4

\* C17: estimateTokenUsage never blocks a request: for every body (a missing
\* body and malformed contents included) it sends no response and calls next
\* exactly once, and when walking the payload raises the estimate is
\* input = 0, total = 0
C17_EstimatorNeverBlocks ==
  (fn.name = "estimateTokenUsage" /\ fn.done)
    => /\ ~fn.out.sent
       /\ fn.out.nextCalls = 1
       /\ Malformed(fn.arg) => (fn.out.input = 0 /\ fn.out.total = 0)

C17_Witness ==
  /\ fn.name = "estimateTokenUsage" /\ fn.done
  /\ fn.arg.present
  /\ Malformed(fn.arg)
  /\ TextTokens(AllParts(fn.arg.items)) > 0
  /\ fn.out.nextCalls = 1
  /\ fn.out.input = 0

\* the same for a request without a body
C17_MissingBody ==
  (fn.name = "estimateTokenUsage" /\ fn.done /\ ~fn.arg.present)
    => fn.out = [input |-> 0, total |-> 0, nextCalls |-> 1, sent |-> FALSE]

RECURSIVE CandidateParts(_)
\* the parts of all the candidates of a candidates array, in order
CandidateParts(cs) ==
  IF cs = <<>> THEN <<>>
  ELSE (IF Head(cs).content = "object" /\ Head(cs).parts = "array"
          THEN Head(cs).items ELSE <<>>) \o CandidateParts(Tail(cs))

\* the response has a usageMetadata block
HasMetadata(a) == a.isObject /\ a.data = "object" /\ a.meta.present

\* the data cannot be walked: the response is null, candidates cannot be
\* iterated, a candidate is null, its parts cannot be iterated, a part is null
MalformedResponse(a) ==
  \/ ~a.isObject
  \/ a.candidates = "other"
  \/ \E i \in DOMAIN a.items :
       \/ ~a.items[i].isObject
       \/ a.items[i].content = "object" /\ a.items[i].parts = "other"
       \/ \E j \in DOMAIN a.items[i].items : ~a.items[i].items[j].isObject

C19_DisconnectReleasesUpstream ==
  \A r \in Reqs :
    (relay[r].client = "gone") ~> (relay[r].source \in {"ended", "closed", "destroyed"})

\* the part of C19 that holds: after the disconnect the source is no longer
\* read (it is not flowing)
C19_DisconnectStopsReading ==
  \A r \in Reqs : relay[r].client = "gone" => relay[r].source # "flowing"

\* C20: every upstream call (generateContent, streamGenerateContent,
\* countTokens, embeddings, list-models, the transparent-proxy fetch, the
\* gRPC-proxy fetch) is issued with a timeout, so a request whose provider
\* never answers still eventually gets a response
C20_UpstreamCallsEnd ==
  \A r \in Reqs :
    (pc[r] \in {"await_upstream", "await_fetch"}) ~> Responded(r)

\* the part of C20 that holds: the calls GeminiService makes with axios
C20_TimedCallsEnd ==
  \A r \in Reqs :
    (pc[r] = "await_upstream" /\ HasTimeout(entry[r])) ~> Responded(r)

(***************************************************************************)
(* Error translation                                                       *)
(***************************************************************************)
\* the entry points whose handler sends the response after an upstream call
UpstreamRoutes == ModelRoutes \cup TransparentRoutes \cup {"models"}

\* the request was answered after its upstream call failed without a response
AnsweredNetworkFailure(r) ==
  /\ entry[r] \in UpstreamRoutes
  /\ pc[r] = "done"
  /\ upstream[r].kind = "network"

\* C21: when an upstream call fails at the network level the status of the
\* client response depends on the cause: 503 for connection refused or DNS
\* failure, 504 for a timeout, 500 for any other network failure
C21_StatusByCause ==
  \A r \in Reqs :
    AnsweredNetworkFailure(r) =>
      resp[r].status = (IF upstream[r].code \in RefusedCodes THEN 503
                        ELSE IF upstream[r].code \in TimeoutCodes
                                  \/ upstream[r] = TimeoutError(entry[r]) THEN 504
                        ELSE 500)

\* the part of C21 that holds: every network-level failure is answered with
\* status 500, CONNECTION_ERROR by a model route and PROXY_ERROR by the
\* transparent proxy
C21_AlwaysStatus500 ==
  \A r \in Reqs :
    AnsweredNetworkFailure(r) =>
      /\ resp[r].status = 500
      /\ resp[r].error = (IF entry[r] \in TransparentRoutes THEN "PROXY_ERROR"
                          ELSE "CONNECTION_ERROR")

\* the request was answered after the provider answered its upstream call
\* non-2xx with a structured error body
AnsweredStructuredError(r) ==
  /\ pc[r] = "done"
  /\ upstream[r].kind = "error"
  /\ upstream[r].meta

\* the response carries the status, the code and the message of the provider
CarriesProviderError(r) ==
  /\ resp[r].status = upstream[r].status
  /\ resp[r].error = "PROVIDER_CODE"
  /\ resp[r].message = "PROVIDER_MESSAGE"

\* C22: on generateContent, streamGenerateContent, countTokens and
\* embeddings, a non-2xx provider answer with a structured error body is
\* answered with the provider's status, error code and message
C22_ProviderErrorRelayed ==
  \A r \in Reqs :
    (entry[r] \in ModelRoutes /\ AnsweredStructuredError(r)) => CarriesProviderError(r)

\* the part of C22 that holds: the routes whose service method lets axios
\* parse the body (all but streamGenerateContent) relay status, code and
\* message, and streamGenerateContent relays the status
C22_ParsedErrorRelayed ==
  \A r \in Reqs :
    (entry[r] \in ModelRoutes /\ AnsweredStructuredError(r)) =>
      IF entry[r] = "streamGenerateContent"
        THEN resp[r].status = upstream[r].status
        ELSE CarriesProviderError(r)

(***************************************************************************)
(* The transparent proxy route                                             *)
(***************************************************************************)
ProxyRequestBuilt == fn.name = "proxyRequest" /\ fn.done

\* C23: the outbound request of the transparent proxy carries every inbound
\* header except Host and Authorization, never the bearer credential of the
\* client, and a User-Agent that is replaced by a value that identifies the
\* proxy
C23_HeadersForwarded ==
  ProxyRequestBuilt =>
    LET h == fn.arg.headers
        sent == fn.out.headers
    IN /\ \A n \in DOMAIN h \ {"host", "authorization", "user-agent"} :
            \A v \in {"*/*", "client-agent/1.0", "proxy.example", BearerValue} :
              <<n, v>> \in sent <=> v = h[n]
       /\ \A l \in sent : l[1] \notin {"host", "authorization"} /\ l[2] # BearerValue
       /\ \A l \in sent : l[1] = "user-agent" => l[2] = "PerceptEye-Proxy/1.0.0"
       /\ \E l \in sent : l[1] = "user-agent"

\* the part of C23 that holds: Host and Authorization are not sent, the
\* bearer credential is not sent, every other header is sent as received
C23_CredentialNotForwarded ==
  ProxyRequestBuilt =>
    LET h == fn.arg.headers
        sent == fn.out.headers
    IN /\ \A n \in DOMAIN h \ {"host", "authorization"} : <<n, h[n]>> \in sent
       /\ \A l \in sent : l[1] \notin {"host", "authorization"} /\ l[2] # BearerValue

\* the secrets a response body must not show
Secrets == {"stack", "apiKey", "bearerToken"}

\* an error response has been sent for the request
ErrorAnswered(r) == Responded(r) /\ resp[r].error # "none"

\* C24: no client response body, on any error path of any route, contains a
\* stack trace, the provider API key or the bearer token of the client
C24_NoSecretInErrorBody ==
  \A r \in Reqs : ErrorAnswered(r) => resp[r].contains \cap Secrets = {}

\* the part of C24 that holds: the error bodies of every route but the second
\* transparent proxy route are built from fixed texts and the provider's
\* error message only
C24_FixedTextErrorBodies ==
  \A r \in Reqs :
    (ErrorAnswered(r) /\ entry[r] # "transparentNodeFetch")
      => resp[r].contains \cap Secrets = {}

(***************************************************************************)
(* Logs and response headers                                               *)
(***************************************************************************)
\* C25: no log record contains the provider API key in clear; every logged
\* upstream URL has the key replaced by a mask, on every code path
C25_KeyMaskedInLogs ==
  \A r \in Reqs : \A l \in logs[r] : l.apiKey # "clear"

\* the part of C25 that holds: the service methods of GeminiService and the
\* first transparent proxy route log the URL with the key replaced
C25_ServiceLogsMasked ==
  \A r \in Reqs :
    entry[r] # "transparentNodeFetch" => \A l \in logs[r] : l.apiKey # "clear"

\* a billable route
BillableRoutes == {"generateContent", "streamGenerateContent", "countTokens", "embeddings"}

\* C26: every response sent on a billable route for an authenticated request,
\* success or error after a failed upstream call, carries the user id in
\* X-User-ID and a request-correlation id in X-Request-ID
C26_IdentityHeaders ==
  \A r \in Reqs :
    (entry[r] \in BillableRoutes /\ user[r] /\ Responded(r))
      => {"X-User-ID", "X-Request-ID"} \subseteq resHeaders[r]

\* the part of C26 that holds: every response of the HTTP server carries
\* X-Request-ID, and a response built from the answer of the service method
\* carries X-User-ID
C26_RequestIdAlways ==
  \A r \in Reqs :
    (entry[r] \in BillableRoutes /\ Responded(r))
      => /\ "X-Request-ID" \in resHeaders[r]
         /\ (upstream[r].kind = "ok" => "X-User-ID" \in resHeaders[r])

(***************************************************************************)
(* Cost of a generateContent answer                                        *)
(***************************************************************************)
\* generateContent has answered the client with the 2xx answer of the provider
GenerateAnswered(r) ==
  /\ entry[r] = "generateContent"
  /\ pc[r] = "done"
  /\ upstream[r].kind = "ok"
  /\ resp[r].data.kind = "generateContent"

\* shown (in 1e-6 dollar) is computed (in 1e-10 dollar) rounded to 6 decimals
RoundedTo6(shown, computed) ==
  IF computed.kind = "num"
    THEN /\ shown.kind = "num"
         /\ 10000 * shown.v - computed.v <= 5000
         /\ computed.v - 10000 * shown.v < 5000
    ELSE shown = computed

\* the cost of the token counts the provider reported, in 1e-10 dollar, at
\* the rates of gemini-1.5-flash: 0.075 and 0.30 dollar per million tokens
FlashCost(a) == a.prompt * 750 + a.cand * 3000

\* C27: for generateContent the cost in the client response is the computed
\* cost rounded to 6 decimal places and the cost handed to the usage store is
\* the unrounded value; for gemini-1.5-flash with promptTokenCount 6 and
\* candidatesTokenCount 3 the computed cost is 0.00000135 and the displayed
\* cost 0.000001
C27_DisplayRoundedStoreExact ==
  \A r \in Reqs :
    GenerateAnswered(r) =>
      /\ RoundedTo6(resp[r].data.cost, record[r].cost)
      /\ (model[r] = "gemini-1.5-flash" /\ upstream[r].meta)
           => /\ record[r].cost = Num(FlashCost(upstream[r]))
              /\ (upstream[r].prompt = 6 /\ upstream[r].cand = 3)
                   => (record[r].cost = Num(13500) /\ resp[r].data.cost = Num(1))

C27_Witness ==
  \E r \in Reqs :
    /\ GenerateAnswered(r)
    /\ model[r] = "gemini-1.5-flash"
    /\ upstream[r].prompt = 6
    /\ upstream[r].cand = 3
    /\ record[r].cost = Num(13500)
    /\ resp[r].data.cost = Num(1)

(***************************************************************************)
(* Overshoot of the hourly ceiling                                         *)
(***************************************************************************)
\* the requests admitted after the recorded usage reached the ceiling whose
\* limits query had succeeded
LateOnSnapshot == {r \in audit.late : limits[r].state = "read"}

\* C28 (as stated): the number of requests admitted after the usage of the
\* principal has reached a ceiling is at most the number of its requests
\* that were in flight (admitted but not yet recorded) at that moment
C28_OvershootWithinInFlight ==
  Cardinality(audit.late) <= Cardinality(audit.inFlight)

\* C28 (amended): a request admitted after the recorded usage has reached
\* the ceiling is a request whose limits query failed (fail-open) or whose
\* snapshot the store had computed before that moment, and that snapshot
\* showed it within the ceiling; so the number of requests admitted on a
\* snapshot after that moment is at most the number of requests whose
\* snapshot was on its way at that moment
C28_OvershootWithinPending ==
  /\ \A r \in audit.late :
       \/ limits[r].state = "failed"
       \/ (r \in audit.pending /\ limits[r].state = "read" /\ limits[r].hourly)
  /\ Cardinality(LateOnSnapshot) <= Cardinality(audit.pending)

\* the recorded usage has reached the ceiling while no request was in
\* flight, and a request whose snapshot was on its way has been admitted since
C28_Witness ==
  /\ audit.reached
  /\ audit.inFlight = {}
  /\ \E r \in audit.late : r \in audit.pending /\ limits[r].state = "read"

\* the original URL has a query string
HasQuery(u) == \E i \in 1..Len(u) : u[i] = Query

\* C29: in transparent-forwarding mode the outbound URL is the provider base
\* URL followed by the original URL without its '/api/gemini' prefix and the
\* API-key parameter, appended with '?' when the path has no query string
\* and with '&' otherwise
C29_UrlRewritten ==
  ProxyRequestBuilt =>
    fn.out.url = <<GoogleBase>> \o Tail(fn.arg.originalUrl)
                   \o <<IF HasQuery(fn.arg.originalUrl) THEN "&" ELSE "?", "key=", ApiKey>>

\* the part of C29 that holds for the URL: a request whose URL starts with
\* the prefix in lower case and has something after it is rewritten as stated
C29_LowerCaseUrlRewritten ==
  (/\ ProxyRequestBuilt
   /\ Head(fn.arg.originalUrl) = MountPrefix
   /\ Len(fn.arg.originalUrl) > 1) =>
    fn.out.url = <<GoogleBase>> \o Tail(fn.arg.originalUrl)
                   \o <<IF HasQuery(fn.arg.originalUrl) THEN "&" ELSE "?", "key=", ApiKey>>

\* the part of C29 that holds for the answer: a provider response is relayed
\* with its status and its body, 2xx or not
C29_AnswerRelayed ==
  \A r \in Reqs :
    (entry[r] \in TransparentRoutes /\ pc[r] = "done" /\ upstream[r].kind \in {"ok", "error"})
      => /\ resp[r].status = upstream[r].status
         /\ resp[r].data.answer = upstream[r]

(***************************************************************************)
(* End of a relayed stream                                                 *)
(***************************************************************************)
\* C30: on streamGenerateContent, once relaying has started, the client
\* response is eventually ended, when the upstream stream ends as well as
\* when it fails in the middle of the transfer, so no client connection is
\* left open forever
C30_RelayedResponseEnds ==
  \A r \in Reqs :
    (pc[r] = "relaying") ~> (pc[r] = "done" \/ relay[r].client = "gone")

\* the part of C30 that holds: the response is ended when the upstream
\* stream ends and when it fails before the first chunk was written; the
\* only relay that stays open is one whose source has failed
C30_EndedUnlessSourceFailed ==
  \A r \in Reqs :
    (pc[r] = "relaying")
      ~> (pc[r] = "done" \/ relay[r].client = "gone" \/ relay[r].source = "errored")

(***************************************************************************)
(* Shutdown                                                                *)
(***************************************************************************)
\* C31: on SIGTERM or SIGINT the process exits only after the HTTP server
\* has finished closing (its close callback has run, the requests under way
\* are answered) and after the gRPC server has shut down
C31_ExitAfterBothServers ==
  proc.exited => /\ proc.http = "closed"
                 /\ HttpInFlight = {}
                 /\ proc.grpc = "down"

\* the part of C31 that holds: the process exits only after the gRPC server
\* has shut down, with no gRPC call under way
C31_ExitAfterGrpcServer ==
  proc.exited => proc.grpc = "down" /\ GrpcInFlight = {}

(***************************************************************************)
(* Unparsable provider body in the transparent proxy                       *)
(***************************************************************************)
\* the second transparent proxy route has answered a provider response
\* that declared application/json with a body that is not JSON
AnsweredGarbled(r) ==
  /\ entry[r] = "transparentNodeFetch"
  /\ pc[r] = "done"
  /\ upstream[r].kind = "garbled"

\* C32: in the second transparent proxy route, when the provider declares
\* content type application/json but its body cannot be parsed as JSON, the
\* client receives 502 PROXY_PARSE_ERROR, not the generic 500 PROXY_ERROR
C32_ParseErrorIs502 ==
  \A r \in Reqs :
    AnsweredGarbled(r) => resp[r].status = 502 /\ resp[r].error = "PROXY_PARSE_ERROR"

\* what the code does in that case: the generic 500 PROXY_ERROR of the
\* outer catch
C32_ParseErrorIs500 ==
  \A r \in Reqs :
    AnsweredGarbled(r) => resp[r].status = 500 /\ resp[r].error = "PROXY_ERROR"

(***************************************************************************)
(* gRPC method dispatch                                                    *)
(***************************************************************************)
\* the provider operation of the same kind as the gRPC method of path p
OperationNamed(p) ==
  IF Includes(p, <<"Stream", "Generate", "Content">>) THEN "streamGenerateContent"
  ELSE IF Includes(p, <<"Count", "Tokens">>) THEN "countTokens"
  ELSE IF Includes(p, <<"Generate", "Content">>) THEN "generateContent"
  ELSE "unsupported"

\* proxyToGoogle has read the path of the authenticated call r
Dispatched(r) == entry[r] = "grpc" /\ path[r] # <<>>

\* C33: proxyToGoogle forwards a call to the provider operation of the same
\* kind as its gRPC method (StreamGenerateContent, CountTokens, non-stream
\* GenerateContent), any other path fails as unsupported without an upstream
\* call, and a call through the registered ProxyRequest method reaches one
\* of the three provider operations
C33_MethodMapped ==
  \A r \in Reqs :
    Dispatched(r) =>
      /\ GoogleEndpoint(path[r]) = OperationNamed(path[r])
      /\ (GoogleEndpoint(path[r]) = "unsupported") = (calls[r].upstream = 0)
      /\ (path[r] = ProxyRequestPath => calls[r].upstream = 1)

\* the part of C33 that holds: a CountTokens path goes to countTokens, a
\* non-stream GenerateContent path to generateContent, and a path that
\* proxyToGoogle does not support fails without an upstream call
C33_PlainMethodsMapped ==
  \A r \in Reqs :
    (Dispatched(r) /\ ~Includes(path[r], <<"Stream">>)) =>
      /\ GoogleEndpoint(path[r]) = OperationNamed(path[r])
      /\ (GoogleEndpoint(path[r]) = "unsupported") = (calls[r].upstream = 0)

\* a call through the registered method is never forwarded
C33_ProxyRequestUnsupported ==
  \A r \in Reqs :
    (Dispatched(r) /\ path[r] = ProxyRequestPath) =>
      /\ calls[r].upstream = 0
      /\ pc[r] = "done"
      /\ resp[r] = GrpcError("Unsupported gRPC method")

(***************************************************************************)
(* One response or one next() per middleware                               *)
(***************************************************************************)
\* the middleware functions of the HTTP pipeline
Middleware == {"authenticateUser", "validateModel", "validateRequest",
               "globalRateLimit", "checkUserLimits", "estimateTokenUsage"}

\* the position of the function s in the chain of entry point e, 0 if absent
PositionIn(e, s) ==
  IF \E k \in 1..Len(Chain(e)) : Chain(e)[k] = s
    THEN CHOOSE k \in 1..Len(Chain(e)) : Chain(e)[k] = s
    ELSE 0

\* the route handler of request r has been started
HandlerStarted(r) == Occurrences(trace[r], <<"start", "handler">>) >= 1

\* in the state: a response has been sent only by a function that ended the
\* chain; every function of the chain was started and ended at most once; a
\* middleware that ended either handed over to its successor or was the
\* last to run and a response was sent; the handler was started only with
\* the principal attached, verified and active
OneOutcomeEach(r) ==
  LET e == entry[r]
      t == trace[r]
  IN /\ resp[r] # NoResp => pc[r] \in {"done", "relaying"}
     /\ \A k \in 1..Len(Chain(e)) :
          /\ Occurrences(t, <<"start", Chain(e)[k]>>) <= 1
          /\ Occurrences(t, <<"end", Chain(e)[k]>>) <= 1
     /\ \A i \in 1..Len(t) :
          (t[i][1] = "end" /\ t[i][2] \in Middleware) =>
             \/ /\ i < Len(t)
                /\ t[i + 1] = <<"start", Chain(e)[PositionIn(e, t[i][2]) + 1]>>
                /\ resp[r] = NoResp \/ i + 1 < Len(t)
             \/ /\ i = Len(t)
                /\ resp[r] # NoResp
                /\ pc[r] = "done"
     /\ HandlerStarted(r) =>
          /\ user[r]
          /\ verified[r]
          /\ \E i \in 1..Len(profiles) : profiles[i]

\* C34: on the routes behind authenticateUser every middleware either sends
\* one response or calls next once, never both and never neither: a request
\* gets at most one response, a finished response is never followed by
\* another one or by a later stage, and a route handler runs only with an
\* authenticated, active principal attached to the request
C34_OneResponseOrNext ==
  /\ [](\A r \in Reqs : entry[r] \in Guarded => OneOutcomeEach(r))
  /\ [][\A r \in Reqs :
          (entry[r] \in Guarded /\ pc[r] = "done")
            => (resp'[r] = resp[r] /\ pc'[r] = "done" /\ stage'[r] = stage[r])]_vars

\* a request went through authenticateUser, validateModel and
\* validateRequest by next() and was answered by checkUserLimits
C34_Witness ==
  \E r \in Reqs :
    /\ entry[r] = "generateContent"
    /\ pc[r] = "done"
    /\ resp[r].status = 429
    /\ Occurrences(trace[r], <<"end", "validateRequest">>) = 1
    /\ Occurrences(trace[r], <<"start", "checkUserLimits">>) = 1
    /\ ~HandlerStarted(r)

(***************************************************************************)
(* Error outcome and usage record in generateContent                       *)
(***************************************************************************)
\* the client of a generateContent request has received an error response
GenerateFailed(r) ==
  /\ entry[r] = "generateContent"
  /\ pc[r] = "done"
  /\ HandlerStarted(r)
  /\ resp[r].error # "none"

\* C35: in generateContent an error outcome and a usage record exclude each
\* other: when the client receives an error response (CONNECTION_ERROR
\* included) no usage write was started for the request, and
\* CONNECTION_ERROR is reported only when no provider response was received
C35_ErrorExcludesUsage ==
  \A r \in Reqs :
    GenerateFailed(r) =>
      /\ calls[r].recordUsage = 0 /\ write[r] = "none"
      /\ resp[r].error = "CONNECTION_ERROR" => upstream[r].kind = "network"

\* the part of C35 that holds: for a provider answer with a JSON object as
\* its body (2xx or not) and for a call that got no response, an error
\* response excludes a usage write and CONNECTION_ERROR means no response
C35_ErrorExcludesUsageObjectBody ==
  \A r \in Reqs :
    (GenerateFailed(r) /\ upstream[r].kind # "null") =>
      /\ calls[r].recordUsage = 0 /\ write[r] = "none"
      /\ resp[r].error = "CONNECTION_ERROR" => upstream[r].kind = "network"

(***************************************************************************)
(* A limits query that returns no row                                      *)
(***************************************************************************)
\* the limits query of request r succeeded and returned no row
NoRowReturned(r) == limits[r].state = "defaulted"

\* C36: fail-open applies only to a failed snapshot query: when the query
\* succeeds but returns no row, the snapshot is all three ceilings
\* unsatisfied with all counters 0, and the request is rejected with 429 for
\* the hourly ceiling and makes no upstream call
C36_NoRowRejected ==
  \A r \in Reqs :
    /\ NoRowReturned(r) =>
         /\ ~limits[r].hourly /\ ~limits[r].tokens /\ ~limits[r].cost
         /\ pc[r] = "done"
         /\ resp[r].status = 429
         /\ resp[r].error = "Rate limit exceeded"
         /\ resp[r].details.counter = "requests_last_hour"
         /\ resp[r].details.value = 0
         /\ calls[r].upstream = 0
    /\ (limits[r].state # "none" /\ Occurrences(trace[r], <<"start", "estimateTokenUsage">>) = 1)
         => \/ limits[r].state = "failed"
            \/ limits[r].state = "read" /\ limits[r].hourly /\ limits[r].tokens /\ limits[r].cost

C36_Witness ==
  \E r \in Reqs :
    /\ NoRowReturned(r)
    /\ entry[r] = "generateContent"
    /\ pc[r] = "done"
    /\ resp[r].status = 429

(***************************************************************************)
(* Consistency of a usage record                                           *)
(***************************************************************************)
\* generateContent has handed a usage record for request r to recordUsage
GenerateRecorded(r) == entry[r] = "generateContent" /\ write[r] # "none"

\* C37: every usage record written by generateContent is consistent: its
\* token total is the prompt count plus the completion count its cost was
\* computed from, so a record with cost > 0 never has a token total of 0
C37_RecordConsistent ==
  \A r \in Reqs :
    GenerateRecorded(r) =>
      LET u == extractTokenUsage(upstream[r])
      IN /\ record[r].cost =
              calculateCost(u.promptTokenCount, u.candidatesTokenCount, model[r])
         /\ record[r].tokens = u.promptTokenCount + u.candidatesTokenCount
         /\ (record[r].cost.kind = "num" /\ record[r].cost.v > 0) => record[r].tokens > 0

\* the part of C37 that holds: the record is consistent when the answer
\* reports a totalTokenCount that is the sum of its two counts, or reports
\* no usageMetadata at all
C37_RecordConsistentWithTotal ==
  \A r \in Reqs :
    (GenerateRecorded(r) /\ upstream[r] # OkNoTotal) =>
      LET u == extractTokenUsage(upstream[r])
      IN /\ record[r].cost =
              calculateCost(u.promptTokenCount, u.candidatesTokenCount, model[r])
         /\ record[r].tokens = u.promptTokenCount + u.candidatesTokenCount
         /\ (record[r].cost.kind = "num" /\ record[r].cost.v > 0) => record[r].tokens > 0

(***************************************************************************)
(* errorHandler and the custom error classes                               *)
(***************************************************************************)
\* errorHandler has answered the error it was given
ErrorHandled == fn.name = "errorHandler" /\ fn.done

\* the error matches one of the kinds errorHandler tells apart
Classified(err) ==
  \/ err.name \in {"ValidationError", "UnauthorizedError", "ForbiddenError",
                   "NotFoundError", "RateLimitError"}
  \/ err.status \in {"401", "403", "404", "429"}
  \/ err.code \in {"ECONNREFUSED", "ENOTFOUND", "ETIMEDOUT"}

\* C38: for an instance of each custom error class of errorHandler.js
\* (ValidationError 400, AuthenticationError 401, AuthorizationError 403,
\* NotFoundError 404, RateLimitError 429, ServiceUnavailableError 503)
\* errorHandler answers with the statusCode of the instance; an error that
\* matches no classified kind gets 500
C38_StatusOfCustomError ==
  ErrorHandled =>
    /\ fn.arg \in CustomErrors => fn.out.status = fn.arg.statusCode
    /\ (fn.arg \notin CustomErrors /\ ~Classified(fn.arg)) => fn.out.status = 500

\* the part of C38 that holds: the five classes with a 4xx statusCode get
\* their statusCode and an error that matches no classified kind,
\* ServiceUnavailableError included, gets 500
C38_StatusOf4xxClasses ==
  ErrorHandled =>
    /\ (fn.arg \in CustomErrors \ {ServiceUnavailableError})
         => fn.out.status = fn.arg.statusCode
    /\ ~Classified(fn.arg) => fn.out.status = 500

(***************************************************************************)
(* The callback of proxyToGoogle                                           *)
(***************************************************************************)
\* the authentication of the gRPC call r fails or has not succeeded
GrpcUnauthenticated(r) == ~StartsWith(hdr[r], BearerPrefix) \/ ~verified[r]

\* in the state: the callback was invoked when and only when proxyToGoogle
\* has finished; with the data of a 2xx answer after one upstream call, or
\* with an error of code INTERNAL; no upstream call without authentication
CallbackOutcome(r) ==
  /\ (resp[r] # NoResp) = (pc[r] = "done")
  /\ pc[r] = "done" =>
       \/ /\ resp[r].status = GRPC_OK
          /\ resp[r].data.answer = upstream[r]
          /\ upstream[r].kind = "ok"
          /\ calls[r].upstream = 1
       \/ /\ resp[r].status = GRPC_INTERNAL
          /\ resp[r].error # "none"
  /\ GrpcUnauthenticated(r) => calls[r].upstream = 0

\* C39: for every gRPC call proxyToGoogle invokes the callback exactly once,
\* with the provider's data after a successful upstream call or with an
\* error of code INTERNAL, never again once it was invoked, and a call
\* whose authentication fails never triggers an upstream call
C39_CallbackOnce ==
  /\ [](\A r \in Reqs : entry[r] = "grpc" => CallbackOutcome(r))
  /\ [][\A r \in Reqs :
          (entry[r] = "grpc" /\ pc[r] = "done")
            => (resp'[r] = resp[r] /\ pc'[r] = "done" /\ calls'[r] = calls[r])]_vars

\* a call was answered with the provider's data, after authentication
C39_Witness ==
  \E r \in Reqs :
    /\ entry[r] = "grpc"
    /\ pc[r] = "done"
    /\ resp[r].status = GRPC_OK
    /\ verified[r]
    /\ calls[r].upstream = 1

====
